---- MODULE Spec2Model ----
(***************************************************************************)
(* A model of libxmf2svg's WMF-to-SVG converter (src/src/lib/wmf2svg.c).   *)
(*                                                                         *)
(* The input buffer is a sequence of bytes, seen here as little-endian     *)
(* 16-bit words: every offset the converter reads a record at is even (the *)
(* record stream starts at 2*Size16w or 22+2*Size16w and every step is     *)
(* twice a word count).  Word i holds the bytes 2i and 2i+1.  The words    *)
(* of the header are fixed by the initial state; the words of the record   *)
(* stream are fixed the first time the converter reads them (mem), so a    *)
(* run is the run of the converter on one buffer, and the runs together    *)
(* cover every buffer over WordVals of the lengths the inputs draw.        *)
(*                                                                         *)
(* The record getters U_WMR*_get and wmfheader_get belong to libuemf.  The *)
(* getters receive the record pointer only (wmf_onerec_draw marks blimit   *)
(* UNUSED), so what they can test is the record's own size field: they     *)
(* return the record's byte size when it covers the record type's fixed    *)
(* part and 0 otherwise (U_WMRCORE_RECSAFE_get).                           *)
(***************************************************************************)
EXTENDS Integers, Sequences, FiniteSets, TLC

VARIABLES
    args,     \* the arguments of the call: pointers (null or not), length, options
    mem,      \* the words of the buffer fixed so far: word index -> 0..65535
    fill,     \* <<>>, or the words every record of the stream repeats
    pc,       \* where the call is: "call", "loop", "tail", "done", "fault", ...
    states,   \* WMF_DRAWING_STATES
    recPtr,   \* byte offset of the record cursor (recPtr - contents)
    recNum,   \* the loop's record counter
    stream,   \* what has been written to the output stream, in order
    result,   \* what the call returned: ret, *out, *out_length
    probe,    \* what wmf2svg_is_wmf returned and stored in *is_wmf
    readHi,   \* 1 + the highest byte offset read so far (0: nothing read)
    calls,    \* number of calls of wmf_onerec_draw so far
    last,     \* the last call of wmf_onerec_draw: its record and what it did
    hist,     \* the decoded records interpreted so far, counted by kind
    heap      \* the blocks that hold face names, and who points to them

vars == <<args, mem, fill, pc, states, recPtr, recNum, stream, result, probe,
          readHi, calls, last, hist, heap>>

----------------------------------------------------------------------------
(* Bounds of the model *)

\* words of record stream a short buffer holds at most
MaxBodyWords == 4

----------------------------------------------------------------------------
(* Integers of the C types *)

Lo(w) == w % 256
Hi(w) == w \div 256

\* (int16_t) of a 16-bit word
ToInt16(w) == IF w >= 32768 THEN w - 65536 ELSE w

Max(a, b) == IF a >= b THEN a ELSE b

\* the least element of a non-empty set of integers
Least(S) == CHOOSE x \in S : \A y \in S : x <= y

----------------------------------------------------------------------------
(* The buffer *)

\* the key of a placeable header, 0x9AC6CDD7, as the words at offsets 0 and 2
KeyLo == 52695
KeyHi == 39622

\* whether the uint32_t key memcpy takes at offset 0 is 0x9AC6CDD7
HasKey(m) == m[0] = KeyLo /\ m[1] = KeyHi

\* uint16_t at byte offset off (off even)
U16At(m, off) == m[off \div 2]

\* uint8_t at byte offset off
U8At(m, off) == IF off % 2 = 0 THEN Lo(m[off \div 2]) ELSE Hi(m[off \div 2])

----------------------------------------------------------------------------
(* wmf2svg_is_wmf *)

\* The call wmf2svg_is_wmf(contents, length, is_wmf) on the buffer m.
\* contents and is_wmf are TRUE when the pointer is not null.  The result is
\* the return value, whether *is_wmf was stored and what, and 1 + the highest
\* byte offset read.
wmf2svg_is_wmf(contents, length, is_wmf, m) ==
    IF ~contents \/ length < 18 \/ ~is_wmf
    THEN [ret |-> -1, stored |-> is_wmf, is_wmf |-> FALSE, readHi |-> 0]
    ELSE IF HasKey(m)
         THEN IF length < 22 + 18
              THEN [ret |-> 0, stored |-> TRUE, is_wmf |-> FALSE, readHi |-> 4]
              ELSE [ret |-> 0, stored |-> TRUE,
                    is_wmf |-> /\ U8At(m, 22) = 1
                               /\ U16At(m, 24) \in {256, 768},
                    readHi |-> 26]
         ELSE [ret |-> 0, stored |-> TRUE,
               is_wmf |-> /\ U8At(m, 0) = 1
                          /\ U16At(m, 4) \in {256, 768},
               readHi |-> 6]

----------------------------------------------------------------------------
(* Numbers of type double.  The values the model reaches are rationals,   *)
(* kept exactly as a fraction in lowest terms with a positive denominator. *)

Abs(x) == IF x < 0 THEN -x ELSE x

RECURSIVE GCD(_, _)
GCD(a, b) == IF b = 0 THEN a ELSE GCD(b, a % b)

Rat(n, d) ==
    LET s == IF d < 0 THEN -1 ELSE 1
        g == GCD(Abs(n), Abs(d))
    IN  [n |-> (s * n) \div g, d |-> (s * d) \div g]

D(i) == [n |-> i, d |-> 1]
RAdd(a, b) == Rat(a.n * b.d + b.n * a.d, a.d * b.d)
RSub(a, b) == Rat(a.n * b.d - b.n * a.d, a.d * b.d)
RMul(a, b) == Rat(a.n * b.n, a.d * b.d)
RDiv(a, b) == Rat(a.n * b.d, a.d * b.n)
RLess(a, b) == a.n * b.d < b.n * a.d
RAbs(a) == [n |-> Abs(a.n), d |-> a.d]

\* a & b of two non-negative integers
RECURSIVE BitAnd(_, _)
BitAnd(a, b) ==
    IF a = 0 \/ b = 0 THEN 0
    ELSE (a % 2) * (b % 2) + 2 * BitAnd(a \div 2, b \div 2)

\* a | b of two non-negative integers
BitOr(a, b) == a + b - BitAnd(a, b)

----------------------------------------------------------------------------
(* Strings.  A C string is a sequence of characters; a char* is NullStr or *)
(* StrPtr(s).                                                              *)

NullStr == <<>>
StrPtr(s) == <<s>>

----------------------------------------------------------------------------
(* Constants of wmf2svg_private.h *)

WMF_MM_TEXT == 1
WMF_MM_ANISOTROPIC == 8
WMF_ALTERNATE == 1
WMF_WINDING == 2
WMF_OPAQUE == 2
WMF_BS_SOLID == 0
WMF_BS_NULL == 1
WMF_BS_HOLLOW == 1
WMF_PS_SOLID == 0
WMF_PS_DASH == 1
WMF_PS_DOT == 2
WMF_PS_DASHDOT == 3
WMF_PS_DASHDOTDOT == 4
WMF_PS_NULL == 5
WMF_TA_LEFT == 0
WMF_TA_RIGHT == 2
WMF_TA_CENTER == 6
WMF_TA_TOP == 0
WMF_OBJ_INVALID == 0
WMF_OBJ_PEN == 1
WMF_OBJ_BRUSH == 2
WMF_OBJ_FONT == 3

\* a uint32_t as its two words; the stock objects are 0x80000000 + n
U32(hi, lo) == [hi |-> hi, lo |-> lo]
WMF_STOCK(n) == U32(32768, n)

----------------------------------------------------------------------------
(* Device contexts *)

\* memset(dc, 0, sizeof(WMF_DEVICE_CONTEXT))
ZeroDeviceContext ==
    [font_set |-> FALSE, font_name |-> NullStr, font_height |-> 0,
     font_width |-> 0, font_escapement |-> 0, font_orientation |-> 0,
     font_weight |-> 0, font_italic |-> 0, font_underline |-> 0,
     font_strikeout |-> 0, font_charset |-> 0,
     stroke_set |-> FALSE, stroke_style |-> 0, stroke_red |-> 0,
     stroke_green |-> 0, stroke_blue |-> 0, stroke_width |-> 0,
     fill_set |-> FALSE, fill_style |-> 0, fill_hatch |-> 0, fill_red |-> 0,
     fill_green |-> 0, fill_blue |-> 0, fill_polymode |-> 0,
     text_red |-> 0, text_green |-> 0, text_blue |-> 0, text_align |-> 0,
     bk_red |-> 0, bk_green |-> 0, bk_blue |-> 0, bk_mode |-> 0,
     rop2_mode |-> 0]

\* a variant of wmf_initDeviceContext that stops after the memset
wmf_initDeviceContext_zero == ZeroDeviceContext

\* the device context wmf_initDeviceContext leaves in *dc
wmf_initDeviceContext ==
    [ZeroDeviceContext EXCEPT
        !.stroke_set = TRUE, !.stroke_style = WMF_PS_SOLID,
        !.stroke_red = 0, !.stroke_green = 0, !.stroke_blue = 0,
        !.stroke_width = 1,
        !.fill_set = TRUE, !.fill_style = WMF_BS_SOLID,
        !.fill_red = 255, !.fill_green = 255, !.fill_blue = 255,
        !.text_red = 0, !.text_green = 0, !.text_blue = 0,
        !.text_align = BitOr(WMF_TA_LEFT, WMF_TA_TOP),
        !.bk_red = 255, !.bk_green = 255, !.bk_blue = 255,
        !.bk_mode = WMF_OPAQUE,
        !.fill_polymode = WMF_ALTERNATE,
        !.rop2_mode = 13]

\* a variant of wmf_copyDeviceContext that leaves dest->font_name as it is
wmf_copyDeviceContext_keepName(dest, src) ==
    [src EXCEPT !.font_name = dest.font_name]

\* *dest after wmf_copyDeviceContext(dest, src): the fields of src, the font
\* name a copy of src's
wmf_copyDeviceContext(dest, src) == src

\* wmf_saveDeviceContext(states); calloc succeeds
wmf_saveDeviceContext(st) ==
    [st EXCEPT !.DeviceContextStack =
        <<wmf_copyDeviceContext(ZeroDeviceContext, st.currentDeviceContext)>>
            \o st.DeviceContextStack]

\* wmf_restoreDeviceContext(states, index): the loop's body, i more times
RECURSIVE RestoreLoop(_, _)
RestoreLoop(st, i) ==
    IF i = 0 \/ st.DeviceContextStack = <<>> THEN st
    ELSE RestoreLoop(
            [st EXCEPT
                !.currentDeviceContext =
                    wmf_copyDeviceContext(st.currentDeviceContext,
                                          Head(st.DeviceContextStack)),
                !.DeviceContextStack = Tail(st.DeviceContextStack)],
            i - 1)

\* a variant of wmf_restoreDeviceContext that pops one frame whatever the
\* index
wmf_restoreDeviceContext_one(st, index) ==
    IF index = 0 THEN st ELSE RestoreLoop(st, 1)

\* a variant of wmf_restoreDeviceContext that resets the map mode as well
wmf_restoreDeviceContext_mapMode(st, index) ==
    IF index = 0 THEN st
    ELSE [RestoreLoop(st, IF index < 0 THEN -index ELSE index)
              EXCEPT !.mapMode = WMF_MM_TEXT]

wmf_restoreDeviceContext(st, index) ==
    IF index = 0 THEN st
    ELSE RestoreLoop(st, IF index < 0 THEN -index ELSE index)

----------------------------------------------------------------------------
(* The object table: objectTable[0 .. objectTableSize-1] *)

\* memset(&obj, 0, sizeof(WMF_GRAPH_OBJECT)): a slot of calloc, a deleted slot
ZeroObject ==
    [type |-> WMF_OBJ_INVALID,
     font_set |-> FALSE, font_name |-> NullStr, font_height |-> 0,
     font_width |-> 0, font_escapement |-> 0, font_orientation |-> 0,
     font_weight |-> 0, font_italic |-> 0, font_underline |-> 0,
     font_strikeout |-> 0, font_charset |-> 0,
     stroke_set |-> FALSE, stroke_style |-> 0, stroke_red |-> 0,
     stroke_green |-> 0, stroke_blue |-> 0, stroke_width |-> 0,
     fill_set |-> FALSE, fill_style |-> 0, fill_hatch |-> 0, fill_red |-> 0,
     fill_green |-> 0, fill_blue |-> 0]

\* the slots the loop of wmf_createObject finds empty
InvalidSlots(st) ==
    {i \in 0 .. st.objectTableSize - 1 :
        st.objectTable[i].type = WMF_OBJ_INVALID}

\* a variant of wmf_createObject that scans the table from its end
wmf_createObject_fromEnd(st, obj) ==
    IF InvalidSlots(st) = {}
    THEN [states |-> st, ret |-> -1]
    ELSE LET i == -Least({-j : j \in InvalidSlots(st)})
         IN  [states |-> [st EXCEPT !.objectTable[i] = obj], ret |-> i]

\* wmf_createObject(states, obj): the states after it and what it returns
wmf_createObject(st, obj) ==
    IF InvalidSlots(st) = {}
    THEN [states |-> st, ret |-> -1]
    ELSE LET i == Least(InvalidSlots(st))
         IN  [states |-> [st EXCEPT !.objectTable[i] = obj], ret |-> i]

\* a variant of wmf_deleteObject that leaves the slot as it is
wmf_deleteObject_keep(st, index) == st

\* a variant of wmf_deleteObject that empties the last slot for an index
\* past the table
wmf_deleteObject_last(st, index) ==
    IF st.objectTableSize = 0 THEN st
    ELSE LET i == IF index >= st.objectTableSize
                  THEN st.objectTableSize - 1 ELSE index
         IN  [st EXCEPT !.objectTable[i] = ZeroObject]

\* a variant of wmf_deleteObject that takes the font of the slot out of the
\* current device context as well
wmf_deleteObject_unselect(st, index) ==
    IF index >= st.objectTableSize % 65536 THEN st
    ELSE [st EXCEPT !.objectTable[index] = ZeroObject,
                    !.currentDeviceContext.font_set = FALSE,
                    !.currentDeviceContext.font_name = NullStr]

\* wmf_deleteObject(states, index), index a uint16_t
wmf_deleteObject(st, index) ==
    IF index >= st.objectTableSize % 65536 THEN st
    ELSE [st EXCEPT !.objectTable[index] = ZeroObject]

\* the stock-object branch of wmf_selectObject
SelectStock(dc, stockObj) ==
    CASE stockObj = WMF_STOCK(0) ->
            [dc EXCEPT !.fill_set = TRUE, !.fill_style = WMF_BS_SOLID,
                       !.fill_red = 255, !.fill_green = 255, !.fill_blue = 255]
      [] stockObj = WMF_STOCK(1) ->
            [dc EXCEPT !.fill_set = TRUE, !.fill_style = WMF_BS_SOLID,
                       !.fill_red = 192, !.fill_green = 192, !.fill_blue = 192]
      [] stockObj = WMF_STOCK(2) ->
            [dc EXCEPT !.fill_set = TRUE, !.fill_style = WMF_BS_SOLID,
                       !.fill_red = 128, !.fill_green = 128, !.fill_blue = 128]
      [] stockObj = WMF_STOCK(3) ->
            [dc EXCEPT !.fill_set = TRUE, !.fill_style = WMF_BS_SOLID,
                       !.fill_red = 64, !.fill_green = 64, !.fill_blue = 64]
      [] stockObj = WMF_STOCK(4) ->
            [dc EXCEPT !.fill_set = TRUE, !.fill_style = WMF_BS_SOLID,
                       !.fill_red = 0, !.fill_green = 0, !.fill_blue = 0]
      [] stockObj = WMF_STOCK(5) ->
            [dc EXCEPT !.fill_set = FALSE, !.fill_style = WMF_BS_NULL]
      [] stockObj = WMF_STOCK(6) ->
            [dc EXCEPT !.stroke_set = TRUE, !.stroke_style = WMF_PS_SOLID,
                       !.stroke_red = 255, !.stroke_green = 255,
                       !.stroke_blue = 255, !.stroke_width = 1]
      [] stockObj = WMF_STOCK(7) ->
            [dc EXCEPT !.stroke_set = TRUE, !.stroke_style = WMF_PS_SOLID,
                       !.stroke_red = 0, !.stroke_green = 0,
                       !.stroke_blue = 0, !.stroke_width = 1]
      [] stockObj = WMF_STOCK(8) ->
            [dc EXCEPT !.stroke_set = FALSE, !.stroke_style = WMF_PS_NULL]
      [] OTHER -> dc

\* a variant of SelectSlot that takes the fill colour of the slot whatever
\* its type
SelectSlot_fill(dc, obj) ==
    [dc EXCEPT !.fill_red = obj.fill_red,
               !.fill_green = obj.fill_green,
               !.fill_blue = obj.fill_blue]

\* the table branch of wmf_selectObject: the switch on obj->type
SelectSlot(dc, obj) ==
    CASE obj.type = WMF_OBJ_PEN ->
            [dc EXCEPT !.stroke_set = obj.stroke_set,
                       !.stroke_style = obj.stroke_style,
                       !.stroke_red = obj.stroke_red,
                       !.stroke_green = obj.stroke_green,
                       !.stroke_blue = obj.stroke_blue,
                       !.stroke_width = obj.stroke_width]
      [] obj.type = WMF_OBJ_BRUSH ->
            [dc EXCEPT !.fill_set = obj.fill_set,
                       !.fill_style = obj.fill_style,
                       !.fill_hatch = obj.fill_hatch,
                       !.fill_red = obj.fill_red,
                       !.fill_green = obj.fill_green,
                       !.fill_blue = obj.fill_blue]
      [] obj.type = WMF_OBJ_FONT ->
            [dc EXCEPT !.font_set = obj.font_set,
                       !.font_name = obj.font_name,
                       !.font_height = obj.font_height,
                       !.font_width = obj.font_width,
                       !.font_escapement = obj.font_escapement,
                       !.font_orientation = obj.font_orientation,
                       !.font_weight = obj.font_weight,
                       !.font_italic = obj.font_italic,
                       !.font_underline = obj.font_underline,
                       !.font_strikeout = obj.font_strikeout,
                       !.font_charset = obj.font_charset]
      [] OTHER -> dc

\* a variant of wmf_selectObject that takes the bit 15 of the index for the
\* bit of the stock objects
wmf_selectObject_bit15(st, index) ==
    IF index >= 32768
    THEN [st EXCEPT !.currentDeviceContext = SelectStock(@, U32(0, index))]
    ELSE IF index >= st.objectTableSize % 65536 THEN st
    ELSE [st EXCEPT !.currentDeviceContext =
                        SelectSlot(@, st.objectTable[index])]

\* wmf_selectObject(states, index), index a uint16_t
wmf_selectObject(st, index) ==
    IF BitAnd(U32(0, index).hi, WMF_STOCK(0).hi) # 0
    THEN [st EXCEPT !.currentDeviceContext = SelectStock(@, U32(0, index))]
    ELSE IF index >= st.objectTableSize % 65536 THEN st
    ELSE [st EXCEPT !.currentDeviceContext =
                        SelectSlot(@, st.objectTable[index])]

----------------------------------------------------------------------------
(* The face names on the heap.  A font_name of a device context or of a    *)
(* slot of the object table is NULL or a block strdup returned.  heap      *)
(* holds the blocks in use (live), the font_name of every slot, of the     *)
(* current device context (dc) and of the saved ones (stack, the top       *)
(* first), and whether a block not in use was freed or read (bad).  The    *)
(* blocks are numbered from 1, and 0 is NULL.  The operators below are the *)
(* functions above, seen from their calls of strdup and free.              *)

\* the heap when wmf2svg has built its states: calloc and memset leave
\* every font_name NULL
ZeroHeap(n) ==
    [live |-> {}, slot |-> [i \in 0 .. n - 1 |-> 0], dc |-> 0,
     stack |-> <<>>, bad |-> FALSE]

\* strdup(src) of the string in the block src, or of a string outside the
\* heap (src = 0): the heap after it and the block returned, the
\* lowest-numbered block not in use
strdup(h, src) ==
    LET p == Least({q \in 1 .. Cardinality(h.live) + 1 : q \notin h.live})
    IN  [h |-> [h EXCEPT !.live = @ \cup {p},
                         !.bad = @ \/ (src # 0 /\ src \notin h.live)],
         p |-> p]

\* free(p)
free(h, p) ==
    IF p = 0 THEN h
    ELSE IF p \in h.live THEN [h EXCEPT !.live = @ \ {p}]
    ELSE [h EXCEPT !.bad = TRUE]

\* a variant of wmf_copyDeviceContext that keeps the font_name memcpy put
\* in dest
wmf_copyDeviceContext_alias(h, dest, src) == [h |-> free(h, dest), p |-> src]

\* wmf_copyDeviceContext(dest, src): the heap after it and dest->font_name
wmf_copyDeviceContext_heap(h, dest, src) ==
    LET h1 == free(h, dest)
    IN  IF src # 0 THEN strdup(h1, src) ELSE [h |-> h1, p |-> 0]

\* wmf_saveDeviceContext(states): the new frame comes from calloc
wmf_saveDeviceContext_heap(h) ==
    LET c == wmf_copyDeviceContext_heap(h, 0, h.dc)
    IN  [c.h EXCEPT !.stack = <<c.p>> \o @]

\* wmf_restoreDeviceContext(states, index): the loop's body, count more
\* times; count is 0 for the index 0
RECURSIVE wmf_restoreDeviceContext_heap(_, _)
wmf_restoreDeviceContext_heap(h, count) ==
    IF count = 0 \/ h.stack = <<>> THEN h
    ELSE LET old == Head(h.stack)
             c == wmf_copyDeviceContext_heap(h, h.dc, old)
             h2 == [c.h EXCEPT !.dc = c.p, !.stack = Tail(@)]
         IN  wmf_restoreDeviceContext_heap(free(h2, old), count - 1)

\* a variant of wmf_createObject that leaves in the slot the font_name
\* memcpy put there
wmf_createObject_shallow(h, st, name) ==
    IF InvalidSlots(st) = {} THEN h
    ELSE [h EXCEPT !.slot[Least(InvalidSlots(st))] = name]

\* wmf_createObject(states, obj), name = obj->font_name
wmf_createObject_heap(h, st, name) ==
    IF InvalidSlots(st) = {} THEN h
    ELSE LET i == Least(InvalidSlots(st))
         IN  IF name # 0
             THEN LET d == strdup(h, name) IN [d.h EXCEPT !.slot[i] = d.p]
             ELSE [h EXCEPT !.slot[i] = name]

\* the case U_WMR_CREATEFONTINDIRECT: strdup of FaceName, wmf_createObject,
\* free of the copy
WMR_CREATEFONTINDIRECT_heap(h, st) ==
    LET t == strdup(h, 0)
    IN  free(wmf_createObject_heap(t.h, st, t.p), t.p)

\* wmf_deleteObject(states, index)
wmf_deleteObject_heap(h, st, index) ==
    IF index >= st.objectTableSize % 65536 THEN h
    ELSE [free(h, h.slot[index]) EXCEPT !.slot[index] = 0]

\* wmf_selectObject(states, index): the case WMF_OBJ_FONT
wmf_selectObject_heap(h, st, index) ==
    IF BitAnd(U32(0, index).hi, WMF_STOCK(0).hi) # 0 THEN h
    ELSE IF index >= st.objectTableSize % 65536 THEN h
    ELSE IF st.objectTable[index].type # WMF_OBJ_FONT THEN h
    ELSE LET h1 == free(h, h.dc)
         IN  IF h.slot[index] # 0
             THEN LET d == strdup(h1, h.slot[index])
                  IN  [d.h EXCEPT !.dc = d.p]
             ELSE [h1 EXCEPT !.dc = 0]

\* free(p) for every p of the sequence ps
RECURSIVE FreeAll(_, _)
FreeAll(h, ps) ==
    IF ps = <<>> THEN h ELSE FreeAll(free(h, Head(ps)), Tail(ps))

\* wmf_freeObjectTable, wmf_freeDeviceContextStack and wmf_freeDeviceContext
\* of the current device context, as wmf2svg calls them before it returns
Cleanup_heap(h) ==
    LET n  == Cardinality(DOMAIN h.slot)
        h1 == FreeAll(h, [k \in 1 .. n |-> h.slot[k - 1]])
        h2 == FreeAll(h1, h.stack)
        h3 == free(h2, h.dc)
    IN  [h3 EXCEPT !.slot = [i \in DOMAIN h.slot |-> 0],
                   !.stack = <<>>, !.dc = 0]

----------------------------------------------------------------------------
(* Coordinate transformation *)

\* a variant of wmf_scaleX that does not subtract windowOrgX
wmf_scaleX_noOrg(st, x) ==
    RMul(IF st.windowExtX # 0
         THEN RAdd(RMul(D(x), RDiv(D(st.viewportExtX), D(st.windowExtX))),
                   D(st.viewportOrgX))
         ELSE D(x),
         st.scaling)

wmf_scaleX(st, x) ==
    RMul(IF st.windowExtX # 0
         THEN RAdd(RMul(RSub(D(x), D(st.windowOrgX)),
                        RDiv(D(st.viewportExtX), D(st.windowExtX))),
                   D(st.viewportOrgX))
         ELSE D(x),
         st.scaling)

wmf_scaleY(st, y) ==
    RMul(IF st.windowExtY # 0
         THEN RAdd(RMul(RSub(D(y), D(st.windowOrgY)),
                        RDiv(D(st.viewportExtY), D(st.windowExtY))),
                   D(st.viewportOrgY))
         ELSE D(y),
         st.scaling)

----------------------------------------------------------------------------
(* SVG style helpers: the attributes written, as a record *)

\* the width wmf_stroke_style prints
StrokeWidth(st) ==
    LET width == RMul(D(st.currentDeviceContext.stroke_width), st.scaling)
    IN  IF RLess(width, D(1)) THEN D(1) ELSE width

\* the integer printf("%.0f") prints for the double r: the nearest integer,
\* the even one of the two when r is halfway between them
Fmt0(r) ==
    LET q == r.n \div r.d
        rem == r.n % r.d
    IN  CASE 2 * rem < r.d -> q
          [] 2 * rem > r.d -> q + 1
          [] OTHER -> IF q % 2 = 0 THEN q ELSE q + 1

\* the stroke-dasharray wmf_stroke_style prints (<<>>: none), each number
\* with "%.0f"
StrokeDash(style, width) ==
    LET w3 == Fmt0(RMul(width, D(3)))
        w  == Fmt0(width)
        k  == BitAnd(style, 15)
    IN  CASE k = WMF_PS_DASH -> <<w3, w>>
          [] k = WMF_PS_DOT -> <<w, w>>
          [] k = WMF_PS_DASHDOT -> <<w3, w, w, w>>
          [] k = WMF_PS_DASHDOTDOT -> <<w3, w, w, w, w, w>>
          [] OTHER -> <<>>

wmf_stroke_style(st) ==
    LET dc == st.currentDeviceContext IN
    IF ~dc.stroke_set \/ dc.stroke_style = WMF_PS_NULL
    THEN [stroke |-> "none"]
    ELSE [stroke |-> "rgb",
          color |-> <<dc.stroke_red, dc.stroke_green, dc.stroke_blue>>,
          width |-> StrokeWidth(st),
          dasharray |-> StrokeDash(dc.stroke_style, StrokeWidth(st))]

\* a variant of wmf_fill_style that writes "evenodd" for ALTERNATE only
wmf_fill_style_alternate(st) ==
    LET dc == st.currentDeviceContext IN
    IF ~dc.fill_set \/ dc.fill_style = WMF_BS_NULL
                    \/ dc.fill_style = WMF_BS_HOLLOW
    THEN [fill |-> "none"]
    ELSE [fill |-> "rgb",
          color |-> <<dc.fill_red, dc.fill_green, dc.fill_blue>>,
          rule |-> IF dc.fill_polymode = WMF_ALTERNATE
                   THEN "evenodd" ELSE "nonzero"]

wmf_fill_style(st) ==
    LET dc == st.currentDeviceContext IN
    IF ~dc.fill_set \/ dc.fill_style = WMF_BS_NULL
                    \/ dc.fill_style = WMF_BS_HOLLOW
    THEN [fill |-> "none"]
    ELSE [fill |-> "rgb",
          color |-> <<dc.fill_red, dc.fill_green, dc.fill_blue>>,
          rule |-> IF dc.fill_polymode = WMF_WINDING
                   THEN "nonzero" ELSE "evenodd"]

----------------------------------------------------------------------------
(* Text *)

\* the terminating character of a C string
NUL == "NUL"

\* a variant of XmlEscape that writes the entity of '<' for '>'
XmlEscape_gt(ch) ==
    CASE ch = "<" -> "&lt;"
      [] ch = ">" -> "&lt;"
      [] ch = "&" -> "&amp;"
      [] ch = "\"" -> "&quot;"
      [] OTHER -> ch

\* what the escaping switch of TEXTOUT and EXTTEXTOUT writes for a character
XmlEscape(ch) ==
    CASE ch = "<" -> "&lt;"
      [] ch = ">" -> "&gt;"
      [] ch = "&" -> "&amp;"
      [] ch = "\"" -> "&quot;"
      [] OTHER -> ch

\* for (i = 0; i < Length && text[i]; i++) <escaping switch>, from index i on
RECURSIVE EscapeLoop(_, _, _)
EscapeLoop(text, Length, i) ==
    IF i < Length /\ text[i + 1] # NUL
    THEN <<XmlEscape(text[i + 1])>> \o EscapeLoop(text, Length, i + 1)
    ELSE <<>>

\* the text anchor chosen from dc.text_align
TextAnchor(text_align) ==
    IF BitAnd(text_align, WMF_TA_CENTER) # 0 THEN "middle"
    ELSE IF BitAnd(text_align, WMF_TA_RIGHT) # 0 THEN "end"
    ELSE "start"

\* the <text> element TEXTOUT and EXTTEXTOUT write; string holds the Length
\* bytes memcpy takes
TextElement(st, Dst, Length, string) ==
    LET dc == st.currentDeviceContext
        fontSize == RMul(D(Abs(dc.font_height)), st.scaling)
    IN  [tag |-> "text", ns |-> st.nameSpaceString,
         x |-> wmf_scaleX(st, Dst.x), y |-> wmf_scaleY(st, Dst.y),
         fill |-> <<dc.text_red, dc.text_green, dc.text_blue>>,
         font_size |-> IF RLess(fontSize, D(1)) THEN D(12) ELSE fontSize,
         text_anchor |-> TextAnchor(dc.text_align),
         font_family |-> dc.font_name,
         italic |-> dc.font_italic # 0,
         bold |-> dc.font_weight > 400,
         content |-> EscapeLoop(string, Length, 0)]

----------------------------------------------------------------------------
(* The record handlers of wmf_onerec_draw, on a decoded payload.  A handler *)
(* takes c = [states, stream] and gives the pair after it.                  *)

\* fprintf(out, ...): one more item on the stream
Emit(c, item) == [c EXCEPT !.stream = Append(@, item)]

WMR_SETBKCOLOR(c, color) ==
    [c EXCEPT !.states.currentDeviceContext.bk_red = color.Red,
              !.states.currentDeviceContext.bk_green = color.Green,
              !.states.currentDeviceContext.bk_blue = color.Blue]

WMR_SETMAPMODE(c, mode) == [c EXCEPT !.states.mapMode = mode]

WMR_SETTEXTCOLOR(c, color) ==
    [c EXCEPT !.states.currentDeviceContext.text_red = color.Red,
              !.states.currentDeviceContext.text_green = color.Green,
              !.states.currentDeviceContext.text_blue = color.Blue]

WMR_SAVEDC(c) == [c EXCEPT !.states = wmf_saveDeviceContext(@)]

WMR_RESTOREDC(c, dc) == [c EXCEPT !.states = wmf_restoreDeviceContext(@, dc)]

WMR_SELECTOBJECT(c, obj) == [c EXCEPT !.states = wmf_selectObject(@, obj)]

WMR_DELETEOBJECT(c, obj) == [c EXCEPT !.states = wmf_deleteObject(@, obj)]

\* the object CREATEPENINDIRECT builds from pen = [Style, Width, Color]
PenObject(pen) ==
    [ZeroObject EXCEPT
        !.type = WMF_OBJ_PEN,
        !.stroke_set = (pen.Style # WMF_PS_NULL),
        !.stroke_style = pen.Style,
        !.stroke_width = IF pen.Width > 0 THEN pen.Width ELSE 1,
        !.stroke_red = pen.Color.Red,
        !.stroke_green = pen.Color.Green,
        !.stroke_blue = pen.Color.Blue]

\* the object CREATEBRUSHINDIRECT builds from lb = [Style, Color, Hatch]
BrushObject(lb) ==
    [ZeroObject EXCEPT
        !.type = WMF_OBJ_BRUSH,
        !.fill_set = (lb.Style # WMF_BS_NULL /\ lb.Style # WMF_BS_HOLLOW),
        !.fill_style = lb.Style,
        !.fill_hatch = lb.Hatch,
        !.fill_red = lb.Color.Red,
        !.fill_green = lb.Color.Green,
        !.fill_blue = lb.Color.Blue]

\* the object CREATEFONTINDIRECT builds from the U_FONT f; FaceName is the
\* C string strdup copies
FontObject(f) ==
    [ZeroObject EXCEPT
        !.type = WMF_OBJ_FONT,
        !.font_set = TRUE,
        !.font_height = f.Height,
        !.font_width = f.Width,
        !.font_escapement = f.Escapement,
        !.font_orientation = f.Orientation,
        !.font_weight = f.Weight,
        !.font_italic = f.Italic,
        !.font_underline = f.Underline,
        !.font_strikeout = f.StrikeOut,
        !.font_charset = f.CharSet,
        !.font_name = StrPtr(f.FaceName)]

WMR_CREATEPENINDIRECT(c, pen) ==
    [c EXCEPT !.states = wmf_createObject(@, PenObject(pen)).states]

WMR_CREATEBRUSHINDIRECT(c, lb) ==
    [c EXCEPT !.states = wmf_createObject(@, BrushObject(lb)).states]

WMR_CREATEFONTINDIRECT(c, f) ==
    [c EXCEPT !.states = wmf_createObject(@, FontObject(f)).states]

WMR_MOVETO(c, pt) ==
    [c EXCEPT !.states.cur_x = wmf_scaleX(c.states, pt.x),
              !.states.cur_y = wmf_scaleY(c.states, pt.y)]

\* a variant of WMR_LINETO that leaves the cursor where it was
WMR_LINETO_keep(c, pt) ==
    LET st == c.states
    IN  Emit(c, [tag |-> "line", ns |-> st.nameSpaceString,
                 x1 |-> st.cur_x, y1 |-> st.cur_y,
                 x2 |-> wmf_scaleX(st, pt.x), y2 |-> wmf_scaleY(st, pt.y),
                 stroke |-> wmf_stroke_style(st)])

WMR_LINETO(c, pt) ==
    LET st == c.states
        x2 == wmf_scaleX(st, pt.x)
        y2 == wmf_scaleY(st, pt.y)
        e  == Emit(c, [tag |-> "line", ns |-> st.nameSpaceString,
                       x1 |-> st.cur_x, y1 |-> st.cur_y,
                       x2 |-> x2, y2 |-> y2,
                       stroke |-> wmf_stroke_style(st)])
    IN  [e EXCEPT !.states.cur_x = x2, !.states.cur_y = y2]

\* TEXTOUT; malloc succeeds
WMR_TEXTOUT(c, Dst, Length, string) ==
    IF Length > 0
    THEN Emit(c, TextElement(c.states, Dst, Length, string))
    ELSE c

\* EXTTEXTOUT writes the element TEXTOUT writes; Opts, dx and rect are not
\* used; malloc succeeds
WMR_EXTTEXTOUT(c, Dst, Length, string) ==
    IF Length > 0
    THEN Emit(c, TextElement(c.states, Dst, Length, string))
    ELSE c

\* a variant of WMR_RECTANGLE that leaves the brush disabled once it has
\* filled the rectangle
WMR_RECTANGLE_useBrush(c, rect) ==
    LET st == c.states
        x  == wmf_scaleX(st, rect.left)
        y  == wmf_scaleY(st, rect.top)
        e  == Emit(c, [tag |-> "rect", ns |-> st.nameSpaceString,
                       x |-> x, y |-> y,
                       width |-> RSub(wmf_scaleX(st, rect.right), x),
                       height |-> RSub(wmf_scaleY(st, rect.bottom), y),
                       fill |-> wmf_fill_style(st),
                       stroke |-> wmf_stroke_style(st)])
    IN  [e EXCEPT !.states.currentDeviceContext.fill_set = FALSE]

WMR_RECTANGLE(c, rect) ==
    LET st == c.states
        x  == wmf_scaleX(st, rect.left)
        y  == wmf_scaleY(st, rect.top)
    IN  Emit(c, [tag |-> "rect", ns |-> st.nameSpaceString,
                 x |-> x, y |-> y,
                 width |-> RSub(wmf_scaleX(st, rect.right), x),
                 height |-> RSub(wmf_scaleY(st, rect.bottom), y),
                 fill |-> wmf_fill_style(st),
                 stroke |-> wmf_stroke_style(st)])

WMR_ELLIPSE(c, rect) ==
    LET st == c.states
        x1 == wmf_scaleX(st, rect.left)
        y1 == wmf_scaleY(st, rect.top)
        x2 == wmf_scaleX(st, rect.right)
        y2 == wmf_scaleY(st, rect.bottom)
    IN  Emit(c, [tag |-> "ellipse", ns |-> st.nameSpaceString,
                 cx |-> RDiv(RAdd(x1, x2), D(2)),
                 cy |-> RDiv(RAdd(y1, y2), D(2)),
                 rx |-> RDiv(RAbs(RSub(x2, x1)), D(2)),
                 ry |-> RDiv(RAbs(RSub(y2, y1)), D(2)),
                 fill |-> wmf_fill_style(st),
                 stroke |-> wmf_stroke_style(st)])

WMR_ROUNDRECT(c, width, height, rect) ==
    LET st == c.states
        x  == wmf_scaleX(st, rect.left)
        y  == wmf_scaleY(st, rect.top)
    IN  Emit(c, [tag |-> "rect", ns |-> st.nameSpaceString,
                 x |-> x, y |-> y,
                 width |-> RSub(wmf_scaleX(st, rect.right), x),
                 height |-> RSub(wmf_scaleY(st, rect.bottom), y),
                 rx |-> RDiv(RAbs(RMul(D(width), st.scaling)), D(2)),
                 ry |-> RDiv(RAbs(RMul(D(height), st.scaling)), D(2)),
                 fill |-> wmf_fill_style(st),
                 stroke |-> wmf_stroke_style(st)])

\* POLYGON; data holds the U_POINT16 after the count
WMR_POLYGON(c, numPoints, data) ==
    LET st == c.states IN
    IF numPoints > 0
    THEN Emit(c, [tag |-> "polygon", ns |-> st.nameSpaceString,
                  points |-> [i \in 1 .. numPoints |->
                                 <<wmf_scaleX(st, data[i].x),
                                   wmf_scaleY(st, data[i].y)>>],
                  fill |-> wmf_fill_style(st),
                  stroke |-> wmf_stroke_style(st)])
    ELSE c

\* POLYLINE; the fill attribute is the literal fill="none"
WMR_POLYLINE(c, numPoints, data) ==
    LET st == c.states IN
    IF numPoints > 0
    THEN Emit(c, [tag |-> "polyline", ns |-> st.nameSpaceString,
                  points |-> [i \in 1 .. numPoints |->
                                 <<wmf_scaleX(st, data[i].x),
                                   wmf_scaleY(st, data[i].y)>>],
                  fill |-> [fill |-> "none"],
                  stroke |-> wmf_stroke_style(st)])
    ELSE c

----------------------------------------------------------------------------
(* Records in the buffer *)

\* the record types (the low byte of the function number) the buffers of
\* the model hold, as uwmf.h numbers them
U_WMR_EOF == 0
U_WMR_SETBKCOLOR == 1
U_WMR_SETMAPMODE == 3
U_WMR_SETRELABS == 5
U_WMR_SETPOLYFILLMODE == 6
U_WMR_SETTEXTCOLOR == 9
U_WMR_SETWINDOWORG == 11
U_WMR_SETWINDOWEXT == 12
U_WMR_SETVIEWPORTORG == 13
U_WMR_SETVIEWPORTEXT == 14
U_WMR_LINETO == 19
U_WMR_MOVETO == 20
U_WMR_ARC == 23
U_WMR_ELLIPSE == 24
U_WMR_PIE == 26
U_WMR_RECTANGLE == 27
U_WMR_ROUNDRECT == 28
U_WMR_SAVEDC == 30
U_WMR_TEXTOUT == 33
U_WMR_POLYGON == 36
U_WMR_POLYLINE == 37
U_WMR_RESTOREDC == 39
U_WMR_SELECTOBJECT == 45
U_WMR_SETTEXTALIGN == 46
U_WMR_CHORD == 48
U_WMR_EXTTEXTOUT == 50
U_WMR_POLYPOLYGON == 56
U_WMR_DELETEOBJECT == 240
U_WMR_CREATEPENINDIRECT == 250
U_WMR_CREATEFONTINDIRECT == 251
U_WMR_CREATEBRUSHINDIRECT == 252

\* the words a buffer holds where the model does not fix them: the record
\* types above, the sizes 0, 1, 3 and 5 words, and 0x4000, the high word of
\* a size whose double does not fit an int
WordVals == {0, 1, 3, 5, 19, 30, 16384}

\* the word indexes of the 6-byte prologue of the record at byte offset r
Prologue(r) == {r \div 2, r \div 2 + 1, r \div 2 + 2}

\* size after "memcpy(&size, contents, 4); size *= 2", a uint32_t, as the
\* int it converts to
RecSize(m, r) ==
    LET lo == (2 * U16At(m, r)) % 65536
        hi == (2 * U16At(m, r + 2) + (2 * U16At(m, r)) \div 65536) % 65536
    IN  ToInt16(hi) * 65536 + lo

\* what a getter of libuemf returns for the record at r whose fixed part
\* is minsize bytes long
RECSAFE_get(m, r, minsize) ==
    LET size == RecSize(m, r)
    IN  IF size < minsize THEN 0 ELSE size

\* for (p = 0; p < nPolys; p++) ..., from polygon p on, for the record whose
\* words are m; pointPtr is the byte offset in the record of the next point.
\* The result is c after the loop and pointPtr after it, which is 1 + the
\* highest byte offset the case has read.
RECURSIVE PolyLoop(_, _, _, _)
PolyLoop(c, m, p, pointPtr) ==
    LET st == c.states
        nPolys == U16At(m, 6)
        numPoints == U16At(m, 8 + 2 * p)
        x(i) == ToInt16(U16At(m, pointPtr + 4 * (i - 1)))
        y(i) == ToInt16(U16At(m, pointPtr + 4 * (i - 1) + 2))
    IN  IF p >= nPolys THEN [c |-> c, readHi |-> pointPtr]
        ELSE IF numPoints = 0 THEN PolyLoop(c, m, p + 1, pointPtr)
        ELSE PolyLoop(Emit(c, [tag |-> "polygon", ns |-> st.nameSpaceString,
                               points |-> [i \in 1 .. numPoints |->
                                              <<wmf_scaleX(st, x(i)),
                                                wmf_scaleY(st, y(i))>>],
                               fill |-> wmf_fill_style(st),
                               stroke |-> wmf_stroke_style(st)]),
                      m, p + 1, pointPtr + 4 * numPoints)

\* POLYPOLYGON, for the record whose words are m (m goes on with the words
\* that follow the record in the buffer).  U_WMRPOLYPOLYGON_get accepts a
\* record of 10 bytes or more; nPolys is at offset 6, aPolyCounts at 8 and
\* Points after the nPolys counts.
WMR_POLYPOLYGON(c, m) ==
    IF RECSAFE_get(m, 0, 10) > 0
    THEN PolyLoop(c, m, 0, 8 + 2 * U16At(m, 6))
    ELSE [c |-> c, readHi |-> 6]

\* ARC, CHORD and PIE.  atan2, cos and sin are not computed: the element
\* keeps the centre, the radii and the two directions (from the centre to
\* StartArc and to EndArc) that the numbers of the path are computed from,
\* and iType, which chooses the commands around the arc.
WMR_ARC(c, iType, StartArc, EndArc, rect) ==
    LET st == c.states
        x1 == wmf_scaleX(st, rect.left)
        y1 == wmf_scaleY(st, rect.top)
        x2 == wmf_scaleX(st, rect.right)
        y2 == wmf_scaleY(st, rect.bottom)
        cx == RDiv(RAdd(x1, x2), D(2))
        cy == RDiv(RAdd(y1, y2), D(2))
    IN  Emit(c, [tag |-> "path", ns |-> st.nameSpaceString,
                 kind |-> iType,
                 cx |-> cx, cy |-> cy,
                 rx |-> RDiv(RAbs(RSub(x2, x1)), D(2)),
                 ry |-> RDiv(RAbs(RSub(y2, y1)), D(2)),
                 start |-> <<RSub(wmf_scaleX(st, StartArc.x), cx),
                             RSub(wmf_scaleY(st, StartArc.y), cy)>>,
                 end |-> <<RSub(wmf_scaleX(st, EndArc.x), cx),
                           RSub(wmf_scaleY(st, EndArc.y), cy)>>,
                 fill |-> IF iType = U_WMR_ARC THEN [fill |-> "none"]
                          ELSE wmf_fill_style(st),
                 stroke |-> wmf_stroke_style(st)])

\* the bytes of the fixed part of a record of type iType that its getter
\* decodes (6: the prologue alone)
FixedPart(iType) ==
    CASE iType = U_WMR_SETBKCOLOR -> 10
      [] iType = U_WMR_SETMAPMODE -> 8
      [] iType = U_WMR_LINETO -> 10
      [] OTHER -> 6

\* a variant of Decoded whose getters accept every record
Decoded_any(m, r) ==
    U8At(m, r + 4) \in {U_WMR_SETBKCOLOR, U_WMR_SETMAPMODE, U_WMR_LINETO,
                        U_WMR_SAVEDC}

\* a variant of Decoded whose getters refuse a record whose high function
\* byte is not 0
Decoded_xb(m, r) ==
    /\ U8At(m, r + 4) \in {U_WMR_SETBKCOLOR, U_WMR_SETMAPMODE, U_WMR_LINETO,
                           U_WMR_SAVEDC}
    /\ U8At(m, r + 5) = 0
    /\ RECSAFE_get(m, r, FixedPart(U8At(m, r + 4))) > 0

\* whether the case of iType calls a getter, and the getter accepts the record
Decoded(m, r) ==
    LET iType == U8At(m, r + 4)
    IN  /\ iType \in {U_WMR_SETBKCOLOR, U_WMR_SETMAPMODE, U_WMR_LINETO,
                      U_WMR_SAVEDC}
        /\ RECSAFE_get(m, r, FixedPart(iType)) > 0

\* 1 + the highest byte offset the call for the record at r reads
ReadEnd(m, r) ==
    IF Decoded(m, r) THEN r + FixedPart(U8At(m, r + 4)) ELSE r + 6

\* the word indexes of the payload the call for the record at r reads
PayloadWords(m, r) == {i \in r \div 2 + 3 .. ReadEnd(m, r) \div 2 - 1 : TRUE}

\* wmf_onerec_draw(contents + r, blimit, recnum, out, states) on the buffer m:
\* c = [states, stream] after it, and what it returns
wmf_onerec_draw(m, r, c) ==
    LET iType == U8At(m, r + 4)
        size == RecSize(m, r)
    IN  [c |->
            CASE iType = U_WMR_EOF -> c
              [] iType = U_WMR_SETBKCOLOR /\ Decoded(m, r) ->
                    WMR_SETBKCOLOR(c, [Red |-> U8At(m, r + 6),
                                       Green |-> U8At(m, r + 7),
                                       Blue |-> U8At(m, r + 8)])
              [] iType = U_WMR_SETMAPMODE /\ Decoded(m, r) ->
                    WMR_SETMAPMODE(c, U16At(m, r + 6))
              [] iType = U_WMR_SAVEDC /\ Decoded(m, r) -> WMR_SAVEDC(c)
              [] iType = U_WMR_LINETO /\ Decoded(m, r) ->
                    WMR_LINETO(c, [y |-> ToInt16(U16At(m, r + 6)),
                                   x |-> ToInt16(U16At(m, r + 8))])
              [] OTHER -> c,
         ret |-> IF iType = U_WMR_EOF THEN 0 ELSE size]

----------------------------------------------------------------------------
(* The buffer: mem holds the words the caller fixed and the words a read    *)
(* has fixed, as long as a later read can reach them: the record loop reads *)
(* no word before its cursor.  A word read for the first time takes any     *)
(* value of WordVals, unless it lies in the part of the buffer that fill    *)
(* describes.                                                               *)

\* whether word i lies in the buffer of length bytes
InBuffer(i, length) == 2 * i + 2 <= length

\* whether word i is one that fill describes: fill = [base, pat] stands for
\* the words pat, pat, ... from word base to the end of the buffer
Filled(i) == fill.pat # <<>> /\ i >= fill.base /\ InBuffer(i, args.length)

FillWord(i) == fill.pat[((i - fill.base) % Len(fill.pat)) + 1]

\* the buffers that agree with m and hold the words idxs as well
Views(m, idxs) ==
    LET new  == idxs \ DOMAIN m
        open == {i \in new : ~Filled(i)}
    IN  {[i \in DOMAIN m \cup new |->
            IF i \in DOMAIN m THEN m[i]
            ELSE IF i \in open THEN g[i] ELSE FillWord(i)] :
         g \in [open -> WordVals]}

\* the words of the view v that mem keeps when the record cursor is at
\* byte offset r
Keep(v, r) ==
    [i \in {j \in DOMAIN v : ~Filled(j) /\ j >= r \div 2} |-> v[i]]

\* no read follows
NoWords == Keep(<<>>, 0)

----------------------------------------------------------------------------
(* What the decoded records did so far.  hist counts the records by kind   *)
(* and keeps what a later record is compared with; p is the payload of the *)
(* record, idx what wmf_createObject returned (-2: not called) and c the   *)
(* states and the stream before the record.                                *)

NoHist ==
    [creates |-> 0, deletes |-> 0, emptied |-> 0,
     saves |-> 0, restores |-> 0, depth |-> 0, saved |-> <<>>,
     payload |-> <<>>, prev |-> <<>>, dc |-> ZeroDeviceContext, mark |-> 0,
     readHi |-> 0]

HistAfter(g, iType, p, idx, c) ==
    LET st == c.states
        save == iType = U_WMR_SAVEDC
        restore == iType = U_WMR_RESTOREDC
        delete == iType = U_WMR_DELETEOBJECT
    IN  [\* calls of wmf_createObject that returned a slot
         creates |-> g.creates + (IF idx >= 0 THEN 1 ELSE 0),
         \* DELETEOBJECT records
         deletes |-> g.deletes + (IF delete THEN 1 ELSE 0),
         \* DELETEOBJECT records that named a slot in use
         emptied |-> g.emptied +
                     (IF /\ delete
                         /\ p < st.objectTableSize
                         /\ st.objectTable[p].type # WMF_OBJ_INVALID
                      THEN 1 ELSE 0),
         \* SAVEDC records and RESTOREDC records
         saves |-> g.saves + (IF save THEN 1 ELSE 0),
         restores |-> g.restores + (IF restore THEN 1 ELSE 0),
         \* frames pushed and not popped: a RESTOREDC of n pops Abs(n)
         \* frames, as many as there are
         depth |-> IF save THEN g.depth + 1
                   ELSE IF restore THEN Max(0, g.depth - Abs(p))
                   ELSE g.depth,
         \* for each such frame, the device context and the stack at its
         \* SAVEDC
         saved |-> IF save
                   THEN <<[dc |-> st.currentDeviceContext,
                           stack |-> st.DeviceContextStack]>> \o g.saved
                   ELSE IF restore THEN SubSeq(g.saved, Abs(p) + 1, Len(g.saved))
                   ELSE g.saved,
         \* the payload of the record, the payload of the record before and
         \* the device context before the record
         payload |-> p,
         prev |-> g.payload,
         dc |-> st.currentDeviceContext,
         \* the number of elements written before the record
         mark |-> Len(c.stream),
         \* for a POLYPOLYGON, 1 + the highest byte offset of the record
         \* read
         readHi |-> IF iType = U_WMR_POLYPOLYGON
                    THEN WMR_POLYPOLYGON(c, p.m).readHi ELSE 0]

\* the heap after the record
HeapAfter(h, iType, p, st) ==
    CASE iType = U_WMR_CREATEFONTINDIRECT -> WMR_CREATEFONTINDIRECT_heap(h, st)
      [] iType \in {U_WMR_CREATEPENINDIRECT, U_WMR_CREATEBRUSHINDIRECT} ->
            wmf_createObject_heap(h, st, 0)
      [] iType = U_WMR_DELETEOBJECT -> wmf_deleteObject_heap(h, st, p)
      [] iType = U_WMR_SELECTOBJECT -> wmf_selectObject_heap(h, st, p.lo)
      [] iType = U_WMR_SAVEDC -> wmf_saveDeviceContext_heap(h)
      [] iType = U_WMR_RESTOREDC -> wmf_restoreDeviceContext_heap(h, Abs(p))
      [] OTHER -> h

----------------------------------------------------------------------------
(* wmf2svg *)

\* the safety check of the record loop
MaxRecords == 100000

\* what wmfheader_get(contents, contents + length, &Placeable, &Header) of
\* libuemf gives: a failure, or the two headers decoded
wmfheader_get(m, length) ==
    LET placeable == HasKey(m)
        h == IF placeable THEN 22 ELSE 0
    IN  {[ret |-> -1]} \cup
        {[ret |-> h + 18,
          Placeable |->
            IF placeable
            THEN [Dst |-> [left |-> ToInt16(U16At(m, 6)),
                           top |-> ToInt16(U16At(m, 8)),
                           right |-> ToInt16(U16At(m, 10)),
                           bottom |-> ToInt16(U16At(m, 12))],
                  Inch |-> U16At(m, 14)]
            ELSE [Dst |-> [left |-> 0, top |-> 0, right |-> 0, bottom |-> 0],
                  Inch |-> 0],
          Header |-> [Size16w |-> U16At(m, h + 2),
                      nObjects |-> U16At(m, h + 10)]]}

\* a variant of RecStart that does not skip the placeable header
RecStart_noKey(m, Header) == Header.Size16w * 2

\* recStart - contents
RecStart(m, Header) ==
    IF HasKey(m)
    THEN 22 + Header.Size16w * 2
    ELSE Header.Size16w * 2

\* the coordinate system and the image size wmf2svg sets up
CoordinateSetup(st, options, hasPlaceable, Placeable) ==
    LET extX == ToInt16((Placeable.Dst.right - Placeable.Dst.left) % 65536)
        extY == ToInt16((Placeable.Dst.bottom - Placeable.Dst.top) % 65536)
        wmfWidth == D(extX)
        wmfHeight == D(extY)
        w == D(options.imgWidth)
        h == D(options.imgHeight)
        scaleX == RDiv(w, wmfWidth)
        scaleY == RDiv(h, wmfHeight)
        dpi == RDiv(D(96), D(Placeable.Inch))
        s1 == [st EXCEPT
                !.hasPlaceable = TRUE,
                !.placeableBounds = Placeable.Dst,
                !.placeableInch = Placeable.Inch,
                !.windowOrgX = Placeable.Dst.left,
                !.windowOrgY = Placeable.Dst.top,
                !.windowExtX = extX, !.windowExtY = extY]
        s2 == IF ~hasPlaceable
              THEN [st EXCEPT !.windowExtX = 1000, !.windowExtY = 1000,
                              !.scaling = D(1),
                              !.imgWidth = D(1000), !.imgHeight = D(1000)]
              ELSE IF options.imgWidth > 0 /\ options.imgHeight > 0
              THEN [s1 EXCEPT !.imgWidth = w, !.imgHeight = h,
                              !.scaling = IF RLess(scaleX, scaleY)
                                          THEN scaleX ELSE scaleY]
              ELSE IF options.imgWidth > 0
              THEN [s1 EXCEPT !.imgWidth = w, !.scaling = scaleX,
                              !.imgHeight = RMul(wmfHeight, scaleX)]
              ELSE IF options.imgHeight > 0
              THEN [s1 EXCEPT !.imgHeight = h, !.scaling = scaleY,
                              !.imgWidth = RMul(wmfWidth, scaleY)]
              ELSE [s1 EXCEPT !.scaling = dpi,
                              !.imgWidth = RMul(wmfWidth, dpi),
                              !.imgHeight = RMul(wmfHeight, dpi)]
    IN  [s2 EXCEPT !.viewportExtX = s2.windowExtX,
                   !.viewportExtY = s2.windowExtY,
                   !.mapMode = WMF_MM_ANISOTROPIC]

\* memset(&states, 0, sizeof(states))
ZeroStates ==
    [uniqId |-> 0, nameSpace |-> NullStr, nameSpaceString |-> NullStr,
     verbose |-> FALSE, svgDelimiter |-> FALSE, Error |-> FALSE,
     endAddress |-> 0,
     currentDeviceContext |-> ZeroDeviceContext,
     DeviceContextStack |-> <<>>,
     objectTable |-> <<>>, objectTableSize |-> 0,
     scaling |-> D(0),
     windowOrgX |-> 0, windowOrgY |-> 0, windowExtX |-> 0, windowExtY |-> 0,
     viewportOrgX |-> 0, viewportOrgY |-> 0,
     viewportExtX |-> 0, viewportExtY |-> 0,
     mapMode |-> 0,
     hasPlaceable |-> FALSE,
     placeableBounds |-> [left |-> 0, top |-> 0, right |-> 0, bottom |-> 0],
     placeableInch |-> 0,
     imgHeight |-> D(0), imgWidth |-> D(0), pxPerMm |-> D(0),
     cur_x |-> D(0), cur_y |-> D(0)]

\* the drawing states wmf2svg builds before it opens the stream; strdup,
\* malloc and calloc succeed
InitialStates(options, length, hasPlaceable, Placeable, Header) ==
    LET named == options.nameSpace # NullStr /\ options.nameSpace[1] # ""
        s0 == [ZeroStates EXCEPT
                !.uniqId = 1,
                !.verbose = options.verbose,
                !.svgDelimiter = options.svgDelimiter,
                !.endAddress = length,
                !.nameSpace = IF named THEN options.nameSpace
                              ELSE StrPtr(""),
                !.nameSpaceString =
                    IF named THEN StrPtr(options.nameSpace[1] \o ":")
                    ELSE StrPtr(""),
                !.currentDeviceContext = wmf_initDeviceContext,
                !.objectTableSize = Header.nObjects,
                !.objectTable = [i \in 0 .. Header.nObjects - 1 |-> ZeroObject]]
    IN  CoordinateSetup(s0, options, hasPlaceable, Placeable)

\* the prologue wmf2svg writes when svgDelimiter is set
Prologue_svg(st, out) ==
    IF st.svgDelimiter
    THEN out \o <<[tag |-> "xml"],
                  [tag |-> "svg", ns |-> st.nameSpaceString,
                   xmlns |-> st.nameSpace,
                   width |-> st.imgWidth, height |-> st.imgHeight]>>
    ELSE out

\* a variant of Epilogue_svg that writes no closing tag
Epilogue_none(st, out) == out

\* the epilogue wmf2svg writes when svgDelimiter is set
Epilogue_svg(st, out) ==
    IF st.svgDelimiter
    THEN Append(out, [tag |-> "/svg", ns |-> st.nameSpaceString])
    ELSE out

\* no call of wmf_onerec_draw yet
NoRecord ==
    [off |-> -1, size |-> <<0, 0>>, iType |-> 0, xb |-> 0, ret |-> 0,
     changed |-> FALSE, emitted |-> FALSE, idx |-> -2, late |-> FALSE]

\* a variant of ClearOut that leaves *out and *out_length as they were
ClearOut_skip(res) == res

\* *out = NULL; *out_length = 0;
ClearOut(res) ==
    [res EXCEPT !.out = NullStr, !.out_length = 0, !.stored = TRUE]

\* whether the record of the call rec lies in a buffer of length bytes with
\* its 6-byte prologue: rec.size holds the low and the high word of its size
\* in words
WellFormed(rec, length) ==
    /\ rec.size[2] < 16384
    /\ 2 * (rec.size[2] * 65536 + rec.size[1]) >= 6
    /\ rec.off + 2 * (rec.size[2] * 65536 + rec.size[1]) <= length

\* return code: no other variable changes but result and pc
Return(code) ==
    /\ result' = [result EXCEPT !.ret = code]
    /\ pc' = "done"

\* wmf2svg from its entry to the first test of the record loop
wmf2svg_begin ==
    /\ pc = "call"
    /\ UNCHANGED <<args, fill, calls, last, hist, heap>>
    /\ IF ~args.contents \/ ~args.out \/ ~args.out_length \/ ~args.options
       THEN /\ Return(-1)
            /\ UNCHANGED <<mem, states, recPtr, recNum, stream, probe, readHi>>
       ELSE LET p == wmf2svg_is_wmf(TRUE, args.length, TRUE, mem)
                cleared == ClearOut(result)
            IN  /\ probe' = p
                /\ readHi' = p.readHi
                /\ IF ~p.is_wmf
                   THEN /\ result' = [cleared EXCEPT !.ret = -2]
                        /\ pc' = "done"
                        /\ UNCHANGED <<mem, states, recPtr, recNum, stream>>
                   ELSE \E h \in wmfheader_get(mem, args.length),
                           opened \in BOOLEAN :
                        IF h.ret < 0
                        THEN /\ result' = [cleared EXCEPT !.ret = -3]
                             /\ pc' = "done"
                             /\ UNCHANGED <<mem, states, recPtr, recNum, stream>>
                        ELSE LET st == InitialStates(args.opt, args.length,
                                        HasKey(mem),
                                        h.Placeable, h.Header)
                             IN  /\ states' = st
                                 /\ IF ~opened
                                    THEN /\ result' = [cleared EXCEPT !.ret = -4]
                                         /\ pc' = "done"
                                         /\ UNCHANGED <<mem, recPtr, recNum,
                                                        stream>>
                                    ELSE /\ result' = cleared
                                         /\ stream' = Prologue_svg(st, <<>>)
                                         /\ recPtr' = RecStart(mem, h.Header)
                                         /\ mem' = Keep(mem, recPtr')
                                         /\ recNum' = 0
                                         /\ pc' = "loop"

\* one iteration of the record loop.  A read past the end of the buffer
\* gives any word, or ends the process.
LoopIter ==
    /\ pc = "loop"
    /\ recPtr < args.length
    /\ UNCHANGED <<args, fill, result, probe, hist, heap>>
    /\ \E v1 \in Views(mem, Prologue(recPtr)) :
       \E v \in Views(v1, PayloadWords(v1, recPtr)) :
       \E crash \in (IF ReadEnd(v, recPtr) > args.length
                     THEN BOOLEAN ELSE {FALSE}) :
          LET c == [states |-> states, stream |-> stream]
              r == wmf_onerec_draw(v, recPtr, c)
              recSize == r.ret
          IN  /\ readHi' = Max(readHi, ReadEnd(v, recPtr))
              /\ calls' = calls + 1
              /\ IF crash
                 THEN /\ pc' = "fault"
                      /\ mem' = NoWords
                      /\ last' = [NoRecord EXCEPT !.off = recPtr,
                                                  !.late = last.late]
                      /\ UNCHANGED <<states, stream, recPtr, recNum>>
                 ELSE /\ states' = r.c.states
                      /\ stream' = r.c.stream
                      /\ last' = [off |-> recPtr, idx |-> -2,
                                  late |-> \/ last.late
                                           \/ /\ last.off >= 0
                                              /\ ~WellFormed(last,
                                                             args.length),
                                  size |-> <<U16At(v, recPtr), U16At(v, recPtr + 2)>>,
                                  iType |-> U8At(v, recPtr + 4),
                                  xb |-> U8At(v, recPtr + 5),
                                  ret |-> recSize,
                                  changed |-> r.c.states # states,
                                  emitted |-> r.c.stream # stream]
                      /\ IF recSize <= 0
                         THEN /\ pc' = "tail"
                              /\ mem' = NoWords
                              /\ UNCHANGED <<recPtr, recNum>>
                         ELSE /\ recPtr' = recPtr + recSize
                              /\ mem' = Keep(v, recPtr')
                              /\ recNum' = recNum + 1
                              /\ pc' = IF recNum + 1 > MaxRecords
                                       THEN "tail" ELSE "loop"

\* the test of the record loop fails
LoopEnd ==
    /\ pc = "loop"
    /\ ~(recPtr < args.length)
    /\ pc' = "tail"
    /\ UNCHANGED <<args, mem, fill, states, recPtr, recNum, stream, result,
                   probe, readHi, calls, last, hist, heap>>

\* wmf2svg from the end of the record loop to its return; the size of the
\* output is counted in items of the stream
wmf2svg_finish ==
    /\ pc = "tail"
    /\ UNCHANGED <<args, mem, fill, states, recPtr, recNum, probe, readHi,
                   calls, last, hist, heap>>
    /\ stream' = Epilogue_svg(states, stream)
    /\ pc' = "done"
    /\ \E allocated \in BOOLEAN :
          LET svg_size == Len(stream')
              out == IF svg_size > 0 /\ allocated
                     THEN StrPtr(stream') ELSE result.out
          IN  result' = [result EXCEPT
                            !.out = out,
                            !.out_length = IF out # NullStr THEN svg_size
                                           ELSE @,
                            !.alloc_failed = svg_size > 0 /\ ~allocated,
                            !.ret = IF out # NullStr THEN 0 ELSE -5]

----------------------------------------------------------------------------
(* The callers' inputs *)

\* the 18-byte standard header, as words
PlainHeader(type, size16w, version, nObjects) ==
    [i \in 0 .. 8 |->
        CASE i = 0 -> type
          [] i = 1 -> size16w
          [] i = 2 -> version
          [] i = 5 -> nObjects
          [] OTHER -> 0]

\* the 22-byte placeable header and the standard header after it, as words
PlaceableHeader(Dst, Inch, type, size16w, version, nObjects) ==
    [i \in 0 .. 19 |->
        CASE i = 0 -> KeyLo
          [] i = 1 -> KeyHi
          [] i = 3 -> Dst.left % 65536
          [] i = 4 -> Dst.top % 65536
          [] i = 5 -> Dst.right % 65536
          [] i = 6 -> Dst.bottom % 65536
          [] i = 7 -> Inch
          [] i \in 11 .. 19 ->
                PlainHeader(type, size16w, version, nObjects)[i - 11]
          [] OTHER -> 0]

\* the words of h that lie in a buffer of length bytes
Trunc(h, length) == [i \in {j \in DOMAIN h : InBuffer(j, length)} |-> h[i]]

Options(nameSpace, svgDelimiter, imgWidth, imgHeight) ==
    [nameSpace |-> nameSpace, verbose |-> FALSE,
     svgDelimiter |-> svgDelimiter,
     imgWidth |-> imgWidth, imgHeight |-> imgHeight]

Args(contents, out, out_length, options, length, opt) ==
    [contents |-> contents, out |-> out, out_length |-> out_length,
     options |-> options, length |-> length, opt |-> opt]

DefaultOptions == Options(NullStr, TRUE, 0, 0)

TestDst == [left |-> 0, top |-> 0, right |-> 100, bottom |-> 50]

\* calls with null pointers
NullInputs ==
    {[args |-> Args(a, b, c, d, 18, DefaultOptions),
      mem |-> PlainHeader(1, 9, 768, 0)] : a, b, c, d \in BOOLEAN}

\* buffers the probe accepts or rejects
ProbeInputs ==
    {[args |-> Args(TRUE, TRUE, TRUE, TRUE, L, DefaultOptions),
      mem |-> Trunc(PlainHeader(t, 9, v, 0), L)] :
        L \in {0, 17, 18}, t \in {1, 2}, v \in {256, 512, 768}}
    \cup
    {[args |-> Args(TRUE, TRUE, TRUE, TRUE, L, DefaultOptions),
      mem |-> Trunc(PlaceableHeader(TestDst, 1440, t, s, v, 0), L)] :
        L \in {18, 39, 40}, t \in {1, 2}, s \in {9, 256, 768},
        v \in {9, 768}}

\* accepted buffers with up to MaxBodyWords words of records
StreamInputs ==
    {[args |-> Args(TRUE, TRUE, TRUE, TRUE, L,
                    Options(NullStr, delim, 0, 0)),
      mem |-> PlainHeader(1, 9, 768, 0)] :
        L \in 18 .. 18 + 2 * MaxBodyWords, delim \in BOOLEAN}
    \cup
    {[args |-> Args(TRUE, TRUE, TRUE, TRUE, 534,
                    Options(ns, TRUE, w, h)),
      mem |-> PlaceableHeader(TestDst, 1440, 1, 256, 768, 0)] :
        ns \in {NullStr, StrPtr(""), StrPtr("svg")},
        w \in {0, 200}, h \in {0, 50}}

\* the buffer h followed by the words ws from word base on
WithRecords(h, base, ws) ==
    [i \in DOMAIN h \cup (base .. base + Len(ws) - 1) |->
        IF i \in DOMAIN h THEN h[i] ELSE ws[i - base + 1]]

\* well-formed record streams: SAVEDC, LINETO to (x 3, y 5) and EOF; the
\* same without the EOF record; LINETO and EOF after a placeable header
\* whose bounds are TestDst or span every int16_t abscissa
SampleInputs ==
    {[args |-> Args(TRUE, TRUE, TRUE, TRUE, 18 + 2 * Len(ws),
                    Options(NullStr, delim, 0, 0)),
      mem |-> WithRecords(PlainHeader(1, 9, 768, 0), 9, ws)] :
        ws \in {<<3, 0, 30, 5, 0, 19, 5, 3, 3, 0, 0>>,
                <<3, 0, 30, 5, 0, 19, 5, 3>>},
        delim \in BOOLEAN}
    \cup
    {[args |-> Args(TRUE, TRUE, TRUE, TRUE, 534 + 16, DefaultOptions),
      mem |-> WithRecords(PlaceableHeader(Dst, 1440, 1, 256, 768, 0),
                          267, <<5, 0, 19, 5, 3, 3, 0, 0>>)] :
        Dst \in {TestDst, [left |-> -32768, top |-> 10,
                           right |-> 32767, bottom |-> 60]}}

\* buffers with words outside WordVals: one whose first record declares
\* 0x80000003 words, of type SETRELABS, with a SAVEDC record six bytes after
\* it; and one of a SETBKCOLOR record (red 1, green 2, blue 3), a SAVEDC
\* record, a FLOODFILL record (a type without a case in wmf_onerec_draw), a
\* LINETO record and an EOF record
WrapInputs ==
    {[args |-> Args(TRUE, TRUE, TRUE, TRUE, 18 + 2 * Len(ws), DefaultOptions),
      mem |-> WithRecords(PlainHeader(1, 9, 768, 0), 9, ws)] :
        ws \in {<<3, 32768, 5, 3, 0, 30>>,
                <<5, 0, 1, 513, 3, 3, 0, 30, 3, 0, 25, 5, 0, 19, 5, 3,
                  3, 0, 0>>}}

\* what *out holds before the call: some pointer, not null
Garbage == StrPtr(<<[tag |-> "?"]>>)

NoFill == [base |-> 0, pat |-> <<>>]

\* a buffer of two records more than the safety check allows: each record 3
\* words long, of type SETRELABS
CapFill == [base |-> 9, pat |-> <<3, 0, 5>>]

CapInputs ==
    {[args |-> Args(TRUE, TRUE, TRUE, TRUE, 18 + 6 * (MaxRecords + 2),
                    DefaultOptions),
      mem |-> PlainHeader(1, 9, 768, 0)]}

\* a buffer that ends after the type byte of its only record, which is 3
\* words long
CutInputs ==
    {[args |-> Args(TRUE, TRUE, TRUE, TRUE, 18 + 5, DefaultOptions),
      mem |-> WithRecords(PlainHeader(1, 9, 768, 0), 9, <<3, 0>>)]}

\* the inputs of the liveness check: those above whose records draw nothing,
\* and SAVEDC with and without an EOF record after it
FairInputs ==
    NullInputs \cup ProbeInputs \cup CutInputs \cup
    {[args |-> Args(TRUE, TRUE, TRUE, TRUE, 18 + 2 * Len(ws), DefaultOptions),
      mem |-> WithRecords(PlainHeader(1, 9, 768, 0), 9, ws)] :
        ws \in {<<3, 0, 30, 3, 0, 0>>, <<3, 0, 30>>}}

InitWith(inputs, f) ==
    /\ \E i \in inputs : args = i.args /\ mem = i.mem
    /\ fill = f
    /\ pc = "call"
    /\ states = ZeroStates
    /\ recPtr = 0
    /\ recNum = 0
    /\ stream = <<>>
    /\ result = [ret |-> 0, out |-> Garbage, out_length |-> 1,
                 stored |-> FALSE, alloc_failed |-> FALSE]
    /\ probe = [ret |-> 0, stored |-> FALSE, is_wmf |-> FALSE, readHi |-> 0]
    /\ readHi = 0
    /\ calls = 0
    /\ last = NoRecord
    /\ hist = NoHist
    /\ heap = ZeroHeap(0)

Init ==
    \/ InitWith(NullInputs \cup ProbeInputs \cup StreamInputs
                    \cup SampleInputs \cup WrapInputs, NoFill)
    \/ InitWith(CapInputs, CapFill)

InitFair == InitWith(FairInputs, NoFill)

Next == wmf2svg_begin \/ LoopIter \/ LoopEnd \/ wmf2svg_finish

Spec == Init /\ [][Next]_vars


\* every step the process can take is taken: nothing suspends wmf2svg
FairSpec == InitFair /\ [][Next]_vars /\ WF_vars(Next)

----------------------------------------------------------------------------
(* Direct calls of wmf2svg_is_wmf *)

\* the callers' buffers: a standard header, or a placeable header and a
\* standard header, cut at length bytes; the pointers null or not
DirectProbeInputs ==
    {[args |-> Args(p, TRUE, q, TRUE, L, DefaultOptions),
      mem |-> Trunc(PlainHeader(t, 9, v, 0), L)] :
        p, q \in BOOLEAN, L \in {0, 17, 18, 19}, t \in {0, 1, 2},
        v \in {256, 512, 768}}
    \cup
    {[args |-> Args(TRUE, TRUE, TRUE, TRUE, L, DefaultOptions),
      mem |-> Trunc(PlaceableHeader(TestDst, 1440, t, s, v, 0), L)] :
        L \in {18, 21, 22, 39, 40, 41}, t \in {1, 2}, s \in {9, 256, 768},
        v \in {9, 256, 768}}

InitProbe == InitWith(DirectProbeInputs, NoFill)

\* wmf2svg_is_wmf(contents, length, is_wmf); args.out_length stands for the
\* pointer is_wmf
Call_is_wmf ==
    /\ pc = "call"
    /\ probe' = wmf2svg_is_wmf(args.contents, args.length, args.out_length,
                               mem)
    /\ readHi' = probe'.readHi
    /\ pc' = "done"
    /\ UNCHANGED <<args, mem, fill, states, recPtr, recNum, stream, result,
                   calls, last, hist, heap>>

SpecProbe == InitProbe /\ [][Call_is_wmf]_vars

----------------------------------------------------------------------------
(* wmf_onerec_draw on decoded records: the record loop when every getter    *)
(* accepts its record, one action for each case of the switch               *)

\* bounds of the record sequences
MaxObjects == 2
MaxCalls == 4

\* the payloads of the records
Pens == {[Style |-> WMF_PS_SOLID, Width |-> 2,
          Color |-> [Red |-> 255, Green |-> 0, Blue |-> 0]]}

Brushes == {[Style |-> WMF_BS_SOLID, Hatch |-> 0,
             Color |-> [Red |-> 0, Green |-> 0, Blue |-> 255]]}

Fonts ==
    {[Height |-> 10, Width |-> 0, Escapement |-> 0, Orientation |-> 0,
      Weight |-> 400, Italic |-> 0, Underline |-> 0, StrikeOut |-> 0,
      CharSet |-> 0, FaceName |-> name] : name \in {<<"A">>, <<"\"", "<">>}}

Texts == {<<"a", "<", "&">>, <<"\"", NUL, "<">>}

\* the record loop is about to interpret its first record, the states st
\* built from an 18-byte standard header
InitAt(st) ==
    /\ states = st
    /\ args = Args(TRUE, TRUE, TRUE, TRUE, 18, Options(NullStr, FALSE, 0, 0))
    /\ mem = NoWords
    /\ fill = NoFill
    /\ pc = "loop"
    /\ recPtr = 18
    /\ recNum = 0
    /\ stream = <<>>
    /\ result = [ret |-> 0, out |-> NullStr, out_length |-> 0,
                 stored |-> TRUE, alloc_failed |-> FALSE]
    /\ probe = [ret |-> 0, stored |-> TRUE, is_wmf |-> TRUE, readHi |-> 6]
    /\ readHi = 6
    /\ calls = 0
    /\ last = NoRecord
    /\ hist = NoHist
    /\ heap = ZeroHeap(st.objectTableSize)

\* the states wmf2svg builds for a standard header that declares nObjects
PlainStates(nObjects) ==
    InitialStates(Options(NullStr, FALSE, 0, 0), 18, FALSE,
                  [Dst |-> [left |-> 0, top |-> 0, right |-> 0, bottom |-> 0],
                   Inch |-> 0],
                  [Size16w |-> 9, nObjects |-> nObjects])

InitRec == \E n \in 0 .. MaxObjects : InitAt(PlainStates(n))

\* the call of wmf_onerec_draw that takes c = [states, stream] to d, for a
\* record of type iType and payload p; idx is what wmf_createObject
\* returned (-2: no call)
Record(iType, p, d, idx) ==
    /\ pc = "loop"
    /\ calls < MaxCalls
    /\ states' = d.states
    /\ stream' = d.stream
    /\ calls' = calls + 1
    /\ recNum' = recNum + 1
    /\ last' = [NoRecord EXCEPT !.iType = iType, !.idx = idx,
                                !.changed = (d.states # states),
                                !.emitted = (d.stream # stream)]
    /\ hist' = HistAfter(hist, iType, p, idx,
                          [states |-> states, stream |-> stream])
    /\ heap' = HeapAfter(heap, iType, p, states)
    /\ UNCHANGED <<args, mem, fill, pc, recPtr, result, probe, readHi>>

Cur == [states |-> states, stream |-> stream]

Rec_CREATEPENINDIRECT ==
    \E pen \in Pens :
        Record(U_WMR_CREATEPENINDIRECT, pen, WMR_CREATEPENINDIRECT(Cur, pen),
               wmf_createObject(states, PenObject(pen)).ret)

Rec_CREATEBRUSHINDIRECT ==
    \E lb \in Brushes :
        Record(U_WMR_CREATEBRUSHINDIRECT, lb,
               WMR_CREATEBRUSHINDIRECT(Cur, lb),
               wmf_createObject(states, BrushObject(lb)).ret)

Rec_CREATEFONTINDIRECT ==
    \E f \in Fonts :
        Record(U_WMR_CREATEFONTINDIRECT, f, WMR_CREATEFONTINDIRECT(Cur, f),
               wmf_createObject(states, FontObject(f)).ret)

Rec_DELETEOBJECT ==
    \E obj \in 0 .. MaxObjects :
        Record(U_WMR_DELETEOBJECT, obj, WMR_DELETEOBJECT(Cur, obj), -2)

\* sel is what the record names, a slot of the object table or a stock
\* object (WHITE_BRUSH, NULL_BRUSH); the record holds its low word
Rec_SELECTOBJECT ==
    \E sel \in {U32(0, i) : i \in 0 .. MaxObjects}
                    \cup {WMF_STOCK(0), WMF_STOCK(5)} :
        Record(U_WMR_SELECTOBJECT, sel, WMR_SELECTOBJECT(Cur, sel.lo), -2)

Rec_TEXTOUT ==
    \E string \in Texts, Length \in {0, 3} :
        Record(U_WMR_TEXTOUT, string,
               WMR_TEXTOUT(Cur, [x |-> 1, y |-> 2], Length, string), -2)

NextRec ==
    \/ Rec_CREATEPENINDIRECT
    \/ Rec_CREATEBRUSHINDIRECT
    \/ Rec_CREATEFONTINDIRECT
    \/ Rec_DELETEOBJECT
    \/ Rec_SELECTOBJECT
    \/ Rec_TEXTOUT

SpecRec == InitRec /\ [][NextRec]_vars

----------------------------------------------------------------------------
(* The records that save, restore and change the device context, and the   *)
(* cleanup of wmf2svg after the record loop                                *)

Rec_SAVEDC == Record(U_WMR_SAVEDC, <<>>, WMR_SAVEDC(Cur), -2)

Rec_RESTOREDC ==
    \E dc \in {-2, 0, 1} :
        Record(U_WMR_RESTOREDC, dc, WMR_RESTOREDC(Cur, dc), -2)

Rec_SETTEXTCOLOR ==
    \E color \in {[Red |-> 0, Green |-> 255, Blue |-> 0]} :
        Record(U_WMR_SETTEXTCOLOR, color, WMR_SETTEXTCOLOR(Cur, color), -2)

\* the record loop ends and wmf2svg frees the object table, the stack and
\* the current device context
Rec_cleanup ==
    /\ pc = "loop"
    /\ pc' = "done"
    /\ heap' = Cleanup_heap(heap)
    /\ UNCHANGED <<args, mem, fill, states, recPtr, recNum, stream, result,
                   probe, readHi, calls, last, hist>>

NextDC ==
    \/ Rec_SAVEDC
    \/ Rec_RESTOREDC
    \/ Rec_SETTEXTCOLOR
    \/ Rec_CREATEPENINDIRECT
    \/ Rec_CREATEBRUSHINDIRECT
    \/ Rec_CREATEFONTINDIRECT
    \/ Rec_SELECTOBJECT
    \/ Rec_DELETEOBJECT
    \/ Rec_cleanup

SpecDC == InitRec /\ [][NextDC]_vars

----------------------------------------------------------------------------
(* The coordinate transformation: MOVETO records under the window and      *)
(* viewport the SETWINDOW* and SETVIEWPORT* records can have set (any      *)
(* int16_t values) and a scaling wmf2svg can have computed                 *)

\* the coordinates of the points, the ends of the int16_t range among them
Coords == {-32768, -1, 0, 7, 32767}

InitScale ==
    \E ox \in {0, -5}, ex \in {0, 3, -4}, vx \in {3, 6}, px \in {0, 2},
       ey \in {0, 5}, sc \in {D(1), Rat(2, 3)} :
        InitAt([PlainStates(0) EXCEPT
                    !.windowOrgX = ox, !.windowExtX = ex,
                    !.viewportExtX = vx, !.viewportOrgX = px,
                    !.windowOrgY = 7, !.windowExtY = ey,
                    !.viewportExtY = 10, !.viewportOrgY = -1,
                    !.scaling = sc])

Rec_MOVETO ==
    \E x \in Coords, y \in Coords :
        Record(U_WMR_MOVETO, [x |-> x, y |-> y],
               WMR_MOVETO(Cur, [x |-> x, y |-> y]), -2)

SpecScale == InitScale /\ [][Rec_MOVETO]_vars

----------------------------------------------------------------------------
(* Drawing records *)

\* drawing records a stream of drawing records holds at most
MaxDraws == 2

\* the case of wmf_onerec_draw for the drawing record p
Draw(c, p) ==
    CASE p.iType = U_WMR_LINETO -> WMR_LINETO(c, p.pt)
      [] p.iType = U_WMR_RECTANGLE -> WMR_RECTANGLE(c, p.rect)
      [] p.iType = U_WMR_ELLIPSE -> WMR_ELLIPSE(c, p.rect)
      [] p.iType = U_WMR_ROUNDRECT ->
            WMR_ROUNDRECT(c, p.width, p.height, p.rect)
      [] p.iType = U_WMR_POLYGON -> WMR_POLYGON(c, p.numPoints, p.data)
      [] p.iType = U_WMR_POLYLINE -> WMR_POLYLINE(c, p.numPoints, p.data)
      [] p.iType = U_WMR_POLYPOLYGON -> WMR_POLYPOLYGON(c, p.m).c
      [] p.iType \in {U_WMR_ARC, U_WMR_CHORD, U_WMR_PIE} ->
            WMR_ARC(c, p.iType, p.StartArc, p.EndArc, p.rect)
      [] p.iType = U_WMR_TEXTOUT ->
            WMR_TEXTOUT(c, p.Dst, p.Length, p.string)
      [] p.iType = U_WMR_EXTTEXTOUT ->
            WMR_EXTTEXTOUT(c, p.Dst, p.Length, p.string)

\* the call of wmf_onerec_draw for a drawing record of the set S
Rec_draw(S) ==
    \E p \in S :
        /\ calls < MaxDraws
        /\ Record(p.iType, p, Draw(Cur, p), -2)

\* the words of a POLYPOLYGON record that declares size16 words and holds
\* the counts counts and then the points (1, 2), (3, 4), ... in a buffer
\* that holds them all and then four words more
PolyWords(size16, counts) ==
    LET nPolys == Len(counts)
        n == 4 + nPolys
    IN  [i \in 0 .. n + 15 |->
            CASE i = 0 -> size16
              [] i = 1 -> 0
              [] i = 2 -> U_WMR_POLYPOLYGON + 256 * 5
              [] i = 3 -> nPolys
              [] i \in 4 .. n - 1 -> counts[i - 3]
              [] OTHER -> i - n + 1]

\* one record of each drawing type
Drawings ==
    LET rect == [left |-> 1, top |-> 2, right |-> 5, bottom |-> 8]
        data == <<[x |-> 1, y |-> 2], [x |-> 3, y |-> -4]>>
        arc(iType) == [iType |-> iType, StartArc |-> [x |-> 5, y |-> 5],
                       EndArc |-> [x |-> 3, y |-> 2], rect |-> rect]
        text(iType) == [iType |-> iType, Dst |-> [x |-> 1, y |-> 2],
                        Length |-> 2, string |-> <<"a", "<">>]
    IN  {[iType |-> U_WMR_LINETO, pt |-> [x |-> 3, y |-> 4]],
         [iType |-> U_WMR_RECTANGLE, rect |-> rect],
         [iType |-> U_WMR_ELLIPSE, rect |-> rect],
         [iType |-> U_WMR_ROUNDRECT, width |-> 2, height |-> 3,
          rect |-> rect],
         [iType |-> U_WMR_POLYGON, numPoints |-> 2, data |-> data],
         [iType |-> U_WMR_POLYLINE, numPoints |-> 2, data |-> data],
         [iType |-> U_WMR_POLYPOLYGON, m |-> PolyWords(10, <<1, 1>>)],
         arc(U_WMR_ARC), arc(U_WMR_CHORD), arc(U_WMR_PIE),
         text(U_WMR_TEXTOUT), text(U_WMR_EXTTEXTOUT)}

\* The drawing records follow records that gave the device context its
\* pen and its brush: none, CREATEPENINDIRECT and SELECTOBJECT 0, or these
\* and CREATEBRUSHINDIRECT and SELECTOBJECT 1.  The history starts after
\* them.
InitDraw ==
    LET c0 == [states |-> PlainStates(2), stream |-> <<>>]
        pen == [Style |-> WMF_PS_DASH, Width |-> 2,
                Color |-> [Red |-> 255, Green |-> 0, Blue |-> 0]]
        lb == [Style |-> WMF_BS_SOLID, Hatch |-> 0,
               Color |-> [Red |-> 0, Green |-> 0, Blue |-> 255]]
        c1 == WMR_SELECTOBJECT(WMR_CREATEPENINDIRECT(c0, pen), 0)
        c2 == WMR_SELECTOBJECT(WMR_CREATEBRUSHINDIRECT(c1, lb), 1)
    IN  \E st \in {c0.states, c1.states, c2.states} : InitAt(st)

SpecDraw == InitDraw /\ [][Rec_draw(Drawings)]_vars

\* SetTransform where SETWINDOWEXT sets the extent of the viewport as well
SetTransform_both(c, p) ==
    CASE p.iType = U_WMR_SETMAPMODE -> WMR_SETMAPMODE(c, p.mode)
      [] p.iType = U_WMR_SETWINDOWORG ->
            [c EXCEPT !.states.windowOrgX = p.pt.x,
                      !.states.windowOrgY = p.pt.y]
      [] p.iType = U_WMR_SETWINDOWEXT ->
            [c EXCEPT !.states.windowExtX = p.pt.x,
                      !.states.windowExtY = p.pt.y,
                      !.states.viewportExtX = p.pt.x,
                      !.states.viewportExtY = p.pt.y]
      [] p.iType = U_WMR_SETVIEWPORTORG ->
            [c EXCEPT !.states.viewportOrgX = p.pt.x,
                      !.states.viewportOrgY = p.pt.y]
      [] p.iType = U_WMR_SETVIEWPORTEXT ->
            [c EXCEPT !.states.viewportExtX = p.pt.x,
                      !.states.viewportExtY = p.pt.y]

\* the case of wmf_onerec_draw for the record p that sets the map mode, the
\* window or the viewport
SetTransform(c, p) ==
    CASE p.iType = U_WMR_SETMAPMODE -> WMR_SETMAPMODE(c, p.mode)
      [] p.iType = U_WMR_SETWINDOWORG ->
            [c EXCEPT !.states.windowOrgX = p.pt.x,
                      !.states.windowOrgY = p.pt.y]
      [] p.iType = U_WMR_SETWINDOWEXT ->
            [c EXCEPT !.states.windowExtX = p.pt.x,
                      !.states.windowExtY = p.pt.y]
      [] p.iType = U_WMR_SETVIEWPORTORG ->
            [c EXCEPT !.states.viewportOrgX = p.pt.x,
                      !.states.viewportOrgY = p.pt.y]
      [] p.iType = U_WMR_SETVIEWPORTEXT ->
            [c EXCEPT !.states.viewportExtX = p.pt.x,
                      !.states.viewportExtY = p.pt.y]

\* the call of wmf_onerec_draw for a SETMAPMODE record or for a
\* SETWINDOWORG, SETWINDOWEXT, SETVIEWPORTORG or SETVIEWPORTEXT record
Rec_transform ==
    \/ \E mode \in {WMF_MM_TEXT, WMF_MM_ANISOTROPIC} :
            LET p == [iType |-> U_WMR_SETMAPMODE, mode |-> mode]
            IN  Record(p.iType, p, SetTransform(Cur, p), -2)
    \/ \E iType \in {U_WMR_SETWINDOWORG, U_WMR_SETWINDOWEXT,
                      U_WMR_SETVIEWPORTORG, U_WMR_SETVIEWPORTEXT},
           pt \in {[x |-> 3, y |-> -5], [x |-> -32768, y |-> 0]} :
            LET p == [iType |-> iType, pt |-> pt]
            IN  Record(p.iType, p, SetTransform(Cur, p), -2)

\* The records that set the transform come among SAVEDC and LINETO
\* records, after the records that gave the device context its pen and
\* brush.
SpecTransform ==
    InitDraw /\ [][\/ Rec_transform
                   \/ Rec_SAVEDC
                   \/ Rec_draw({p \in Drawings : p.iType = U_WMR_LINETO})]_vars

\* the case of wmf_onerec_draw for the record p: a record that sets a mode
\* of the device context, the cursor or the transform, that selects an
\* object (p.lo is the uint16_t of the record), that creates a pen or a
\* brush, or that draws
OneRec(c, p) ==
    CASE p.iType = U_WMR_SETPOLYFILLMODE ->
            [c EXCEPT !.states.currentDeviceContext.fill_polymode = p.mode]
      [] p.iType = U_WMR_SETTEXTALIGN ->
            [c EXCEPT !.states.currentDeviceContext.text_align = p.align]
      [] p.iType = U_WMR_MOVETO -> WMR_MOVETO(c, p.pt)
      [] p.iType = U_WMR_SELECTOBJECT -> WMR_SELECTOBJECT(c, p.lo)
      [] p.iType = U_WMR_CREATEPENINDIRECT -> WMR_CREATEPENINDIRECT(c, p.pen)
      [] p.iType = U_WMR_CREATEBRUSHINDIRECT ->
            WMR_CREATEBRUSHINDIRECT(c, p.lb)
      [] p.iType \in {U_WMR_SETMAPMODE, U_WMR_SETWINDOWORG,
                      U_WMR_SETWINDOWEXT, U_WMR_SETVIEWPORTORG,
                      U_WMR_SETVIEWPORTEXT} -> SetTransform(c, p)
      [] OTHER -> Draw(c, p)

\* the call of wmf_onerec_draw for a record of the set S
Rec_any(S) ==
    \E p \in S :
        Record(p.iType, p, OneRec(Cur, p),
               CASE p.iType = U_WMR_CREATEPENINDIRECT ->
                        wmf_createObject(states, PenObject(p.pen)).ret
                 [] p.iType = U_WMR_CREATEBRUSHINDIRECT ->
                        wmf_createObject(states, BrushObject(p.lb)).ret
                 [] OTHER -> -2)

\* CREATEPENINDIRECT records for pens of every style, of a style with bits
\* above its low nibble and of widths 0, 1, 2 and 3, SELECTOBJECT records
\* and LINETO and RECTANGLE records, for a table of one or two objects
\* (MaxObjects - 1) and three values of scaling
SpecStroke ==
    /\ \E sc \in {D(1), Rat(2, 3), Rat(3, 2)} :
            InitAt([PlainStates(MaxObjects - 1) EXCEPT !.scaling = sc])
    /\ [][\/ Rec_any({[iType |-> U_WMR_CREATEPENINDIRECT,
                        pen |-> [Style |-> sw[1], Width |-> sw[2],
                                 Color |-> [Red |-> 255, Green |-> 0,
                                            Blue |-> 10]]] :
                            sw \in {<<WMF_PS_SOLID, 0>>, <<WMF_PS_DASH, 2>>,
                                    <<WMF_PS_DASH, 1>>, <<WMF_PS_DOT, 3>>,
                                    <<WMF_PS_DASHDOT, 2>>,
                                    <<WMF_PS_DASHDOTDOT, 1>>,
                                    <<WMF_PS_NULL, 2>>,
                                    <<256 + WMF_PS_DASH, 2>>,
                                    <<256 + WMF_PS_NULL, 2>>}}
                       \cup {p \in Drawings :
                                p.iType \in {U_WMR_LINETO, U_WMR_RECTANGLE}})
          \/ Rec_SELECTOBJECT]_vars

\* CREATEBRUSHINDIRECT records for a solid, a null and a hatched brush,
\* SETPOLYFILLMODE records, SELECTOBJECT records and one drawing record of
\* each type that has an outline
SpecFill ==
    /\ InitAt(PlainStates(MaxObjects - 1))
    /\ [][\/ Rec_any({[iType |-> U_WMR_CREATEBRUSHINDIRECT,
                        lb |-> [Style |-> Style, Hatch |-> 0,
                                Color |-> [Red |-> 0, Green |-> 171,
                                           Blue |-> 255]]] :
                            Style \in {WMF_BS_SOLID, WMF_BS_NULL, 2}}
                       \cup {[iType |-> U_WMR_SETPOLYFILLMODE, mode |-> mode] :
                                mode \in {WMF_ALTERNATE, WMF_WINDING, 0}}
                       \cup {p \in Drawings :
                                p.iType \in {U_WMR_RECTANGLE, U_WMR_POLYGON,
                                             U_WMR_POLYLINE, U_WMR_ARC,
                                             U_WMR_PIE}})
          \/ Rec_SELECTOBJECT]_vars

\* MOVETO and LINETO records among records of the other kinds: records
\* that set the extent of the window, the origin of the viewport and the
\* text alignment, CREATEPENINDIRECT, RECTANGLE, TEXTOUT and EXTTEXTOUT
\* records, and SAVEDC and RESTOREDC records
SpecCursor ==
    /\ InitAt(PlainStates(MaxObjects - 1))
    /\ [][\/ Rec_any({[iType |-> iType, pt |-> pt] :
                            iType \in {U_WMR_MOVETO, U_WMR_LINETO},
                            pt \in {[x |-> 3, y |-> 4], [x |-> -5, y |-> 7]}}
                       \cup {[iType |-> U_WMR_SETWINDOWEXT,
                              pt |-> [x |-> 500, y |-> -250]],
                             [iType |-> U_WMR_SETVIEWPORTORG,
                              pt |-> [x |-> 10, y |-> 20]],
                             [iType |-> U_WMR_SETTEXTALIGN,
                              align |-> WMF_TA_RIGHT],
                             [iType |-> U_WMR_SETTEXTALIGN,
                              align |-> WMF_TA_CENTER],
                             [iType |-> U_WMR_CREATEPENINDIRECT,
                              pen |-> [Style |-> WMF_PS_DOT, Width |-> 2,
                                       Color |-> [Red |-> 1, Green |-> 2,
                                                  Blue |-> 3]]]}
                       \cup {p \in Drawings :
                                p.iType \in {U_WMR_RECTANGLE, U_WMR_TEXTOUT,
                                             U_WMR_EXTTEXTOUT}})
          \/ Rec_SAVEDC
          \/ Rec_RESTOREDC]_vars

\* SELECTOBJECT records for the indexes 5, 32768 and 65535 of a table of
\* 32769 slots, nObjects of the header, whose records have left a brush in
\* the slot 32768 and no object in the others, and SETPOLYFILLMODE and
\* RECTANGLE records
SpecSelect ==
    /\ InitAt([PlainStates(32768 + 1) EXCEPT
                  !.objectTable[32768] =
                      BrushObject([Style |-> WMF_BS_SOLID, Hatch |-> 0,
                                   Color |-> [Red |-> 0, Green |-> 171,
                                              Blue |-> 255]])])
    /\ [][Rec_any({[iType |-> U_WMR_SELECTOBJECT, hi |-> 0, lo |-> lo] :
                        lo \in {5, 32768, 65535}}
                   \cup {[iType |-> U_WMR_SETPOLYFILLMODE, mode |-> mode] :
                            mode \in {WMF_WINDING}}
                   \cup {p \in Drawings : p.iType = U_WMR_RECTANGLE})]_vars

----------------------------------------------------------------------------
(* Base64 *)

base64_chars ==
    <<"A", "B", "C", "D", "E", "F", "G", "H", "I", "J", "K", "L", "M",
      "N", "O", "P", "Q", "R", "S", "T", "U", "V", "W", "X", "Y", "Z",
      "a", "b", "c", "d", "e", "f", "g", "h", "i", "j", "k", "l", "m",
      "n", "o", "p", "q", "r", "s", "t", "u", "v", "w", "x", "y", "z",
      "0", "1", "2", "3", "4", "5", "6", "7", "8", "9", "+", "/">>

\* a variant of wmf_base64_encode whose mod_table is {0, 1, 2}
wmf_base64_encode_pad(data, input_length) ==
    LET output_length == 4 * ((input_length + 2) \div 3)
        octet(i) == IF i < input_length THEN U8At(data, i) ELSE 0
        \* the triple of the iteration that starts at i = 3 * g
        triple(g) == octet(3 * g) * 65536 + octet(3 * g + 1) * 256
                        + octet(3 * g + 2)
        \* encoded_data[j] as the loop writes it
        loop(j) == base64_chars[((triple(j \div 4)
                                    \div (2 ^ (18 - 6 * (j % 4)))) % 64) + 1]
        mod_table == <<0, 1, 2>>
        pad == mod_table[(input_length % 3) + 1]
    IN  [output_length |-> output_length,
         encoded_data |->
            [k \in 1 .. output_length + 1 |->
                CASE k = output_length + 1 -> NUL
                  [] k > output_length - pad -> "="
                  [] OTHER -> loop(k - 1)]]

\* wmf_base64_encode(data, input_length, output_length), malloc succeeds:
\* *output_length and the characters of the block returned, the NUL last
wmf_base64_encode(data, input_length) ==
    LET output_length == 4 * ((input_length + 2) \div 3)
        octet(i) == IF i < input_length THEN U8At(data, i) ELSE 0
        \* the triple of the iteration that starts at i = 3 * g
        triple(g) == octet(3 * g) * 65536 + octet(3 * g + 1) * 256
                        + octet(3 * g + 2)
        \* encoded_data[j] as the loop writes it
        loop(j) == base64_chars[((triple(j \div 4)
                                    \div (2 ^ (18 - 6 * (j % 4)))) % 64) + 1]
        mod_table == <<0, 2, 1>>
        pad == mod_table[(input_length % 3) + 1]
    IN  [output_length |-> output_length,
         encoded_data |->
            [k \in 1 .. output_length + 1 |->
                CASE k = output_length + 1 -> NUL
                  [] k > output_length - pad -> "="
                  [] OTHER -> loop(k - 1)]]

\* the words a buffer to encode holds at most
MaxData == 3

\* wmf_base64_encode is called on the first args.length bytes of a buffer of
\* up to MaxData words (the last byte of the last word left out or not),
\* and what it returns is kept in result
SpecBase64 ==
    /\ InitWith({x \in {[args |-> Args(TRUE, TRUE, TRUE, TRUE,
                                       2 * Len(ws) - odd, DefaultOptions),
                         mem |-> [i \in 0 .. Len(ws) - 1 |-> ws[i + 1]]] :
                            ws \in UNION {[1 .. k -> {0, 65535, 24909, 110}] :
                                             k \in 0 .. MaxData},
                            odd \in {0, 1}} :
                     x.args.length >= 0},
                 NoFill)
    /\ [][/\ pc = "call"
           /\ pc' = "done"
           /\ result' = [result EXCEPT
                  !.out = wmf_base64_encode(mem, args.length).encoded_data,
                  !.out_length =
                      wmf_base64_encode(mem, args.length).output_length,
                  !.stored = TRUE]
           /\ UNCHANGED <<args, mem, fill, states, recPtr, recNum, stream,
                          probe, readHi, calls, last, hist, heap>>]_vars

\* TEXTOUT records for every string of one or two of the characters below
\* and for a string that spells an entity, a TEXTOUT record whose Length is
\* less than what follows it, and EXTTEXTOUT records for every string of
\* one character
TextRecords ==
    LET chars == {"a", "'", "<", ">", "&", "\"", NUL}
        text(iType, Length, string) ==
            [iType |-> iType, Dst |-> [x |-> 1, y |-> 2],
             Length |-> Length, string |-> string]
    IN  {text(iType, 1, <<a>>) :
            iType \in {U_WMR_TEXTOUT, U_WMR_EXTTEXTOUT}, a \in chars}
            \cup {text(U_WMR_TEXTOUT, 2, <<a, b>>) : a \in chars, b \in chars}
            \cup {text(U_WMR_TEXTOUT, 4, <<"&", "l", "t", ";">>),
                  text(U_WMR_TEXTOUT, 1, <<"<", "a">>)}

SpecText == InitAt(PlainStates(0)) /\ [][Rec_draw(TextRecords)]_vars

\* POLYPOLYGON records: for each list of counts a record of the size its
\* counts and points take, and two records that declare fewer words than
\* that, 5 and 7
PolyRecords ==
    LET poly(size16, counts) ==
            [iType |-> U_WMR_POLYPOLYGON, m |-> PolyWords(size16, counts)]
    IN  {poly(4, <<>>), poly(5, <<0>>), poly(7, <<1>>), poly(9, <<2>>),
         poly(6, <<0, 0>>), poly(8, <<0, 1>>), poly(8, <<1, 0>>),
         poly(12, <<1, 2>>), poly(12, <<2, 1>>), poly(13, <<2, 0, 1>>),
         poly(5, <<2>>), poly(7, <<1, 2>>)}

SpecPoly == InitRec /\ [][Rec_draw(PolyRecords)]_vars

----------------------------------------------------------------------------
(* The claims *)

\* C1: every byte wmf2svg and wmf_onerec_draw read has an offset below the
\* length of the buffer: 1 + the highest offset read is at most the length.
C1_ReadsInBounds == readHi <= args.length

\* C2: a record that is shorter than its prologue or that extends past the
\* end of the buffer changes no interpreter state and emits nothing, and no
\* call of wmf_onerec_draw follows such a record.  Stated for the records
\* whose prologue lies in the buffer.
C2_MalformedEndsLoop ==
    (last.off >= 0 /\ last.off + 6 <= args.length /\ pc # "fault") =>
        /\ ~last.late
        /\ ~WellFormed(last, args.length) => ~last.changed /\ ~last.emitted

\* C3: a conversion calls wmf_onerec_draw at most MaxRecords times.
C3_AtMostCap == calls <= MaxRecords

\* C4: every conversion eventually returns.
C4_Returns == <>(pc = "done")

\* C5: when the probe and the header decoding accept the input and the stream
\* opens, wmf2svg returns -5 only if the allocation of the result failed.
C5_MinusFiveIsAllocFailure ==
    (pc = "done" /\ result.ret = -5) => result.alloc_failed

AnyNull ==
    ~args.contents \/ ~args.out \/ ~args.out_length \/ ~args.options

\* C6: wmf2svg returns -1 exactly when one of its four pointers is null;
\* otherwise it returns -2 exactly when the probe leaves is_wmf false, which
\* it does for every buffer shorter than 18 bytes; when it returns -2 or -3,
\* *out is NULL, *out_length is 0 and wmf_onerec_draw was never called.
C6_ErrorReturns ==
    pc = "done" =>
        /\ (result.ret = -1) <=> AnyNull
        /\ ~AnyNull => ((result.ret = -2) <=> ~probe.is_wmf)
        /\ (~AnyNull /\ args.length < 18) => result.ret = -2
        /\ result.ret \in {-2, -3} =>
                /\ result.out = NullStr
                /\ result.out_length = 0
                /\ calls = 0

\* a buffer shorter than 18 bytes is refused as not a WMF
C6_Witness ==
    pc = "done" /\ result.ret = -2 /\ args.length = 17 /\ result.out = NullStr

\* what the format asks of a buffer of length bytes: a standard header at
\* offset 0, or at offset 22 after the placeable key, with iType 1 and the
\* version, at offset 4 of the header, 0x0100 or 0x0300
ValidWmf(m, length) ==
    /\ length >= 18
    /\ \/ /\ ~HasKey(m)
          /\ U8At(m, 0) = 1
          /\ U16At(m, 4) \in {256, 768}
       \/ /\ HasKey(m)
          /\ length >= 40
          /\ U8At(m, 22) = 1
          /\ U16At(m, 22 + 4) \in {256, 768}

\* C7: called with a buffer and a place for the answer, wmf2svg_is_wmf
\* answers true exactly for the buffers ValidWmf describes, and reads no
\* byte at or after the length.
C7_ProbeIff ==
    (pc = "done" /\ args.contents /\ args.out_length) =>
        /\ probe.stored
        /\ probe.is_wmf <=> ValidWmf(mem, args.length)
        /\ probe.readHi <= args.length

Delimiters == {"xml", "svg", "/svg"}

\* C8: the output of a conversion that returns 0 starts with the prologue
\* and ends with the closing tag, with no other delimiter between them, when
\* svgDelimiter is set, and holds no delimiter when it is not.
C8_Delimiters ==
    (pc = "done" /\ result.ret = 0) =>
        LET o == result.out[1] IN
        IF args.opt.svgDelimiter
        THEN /\ Len(o) >= 3
             /\ o[1].tag = "xml" /\ o[2].tag = "svg" /\ o[Len(o)].tag = "/svg"
             /\ \A k \in 3 .. Len(o) - 1 : o[k].tag \notin Delimiters
        ELSE \A k \in 1 .. Len(o) : o[k].tag \notin Delimiters

\* a conversion with delimiters returned a line between them, its record
\* loop ended by a record that runs past the end of the buffer
C8_Witness ==
    /\ pc = "done" /\ result.ret = 0 /\ args.opt.svgDelimiter
    /\ \E k \in 1 .. Len(result.out[1]) : result.out[1][k].tag = "line"
    /\ ~WellFormed(last, args.length)

RawSpecial == {"<", "&", "\""}

\* C9: no text element written holds a raw '<', '&' or '"' in its content
\* or in its font-family attribute.
C9_NoRawSpecial ==
    \A k \in 1 .. Len(stream) :
        stream[k].tag = "text" =>
            /\ \A i \in 1 .. Len(stream[k].content) :
                    stream[k].content[i] \notin RawSpecial
            /\ stream[k].font_family # NullStr =>
                    \A i \in 1 .. Len(stream[k].font_family[1]) :
                        stream[k].font_family[1][i] \notin RawSpecial

\* C10: a call of wmf_createObject that finds an Invalid slot returns the
\* index of the lowest one and stores the object there, leaving the other
\* slots alone; one that finds none returns -1 and leaves the table alone.
C10_LowestSlot ==
    [][last'.idx # -2 =>
        LET n == states.objectTableSize
            t == states.objectTable
            i == last'.idx
        IN  IF \A j \in 0 .. n - 1 : t[j].type # WMF_OBJ_INVALID
            THEN i = -1 /\ states'.objectTable = t
            ELSE /\ i \in 0 .. n - 1
                 /\ t[i].type = WMF_OBJ_INVALID
                 /\ \A j \in 0 .. i - 1 : t[j].type # WMF_OBJ_INVALID
                 /\ states'.objectTable[i].type # WMF_OBJ_INVALID
                 /\ \A j \in (0 .. n - 1) \ {i} :
                        states'.objectTable[j] = t[j]]_vars

\* the slot DELETEOBJECT freed below a slot in use was taken again
C10_Witness ==
    /\ last.idx = 0 /\ calls = 4
    /\ states.objectTableSize = 2
    /\ states.objectTable[1].type # WMF_OBJ_INVALID

\* the slots of the object table that hold an object
UsedSlots ==
    {i \in 0 .. states.objectTableSize - 1 :
        states.objectTable[i].type # WMF_OBJ_INVALID}

\* C11, as the specification states it: the number of slots in use is the
\* number of creations that found a slot minus the number of DELETEOBJECT
\* records, and is at most the size of the table.
C11_SlotCount ==
    /\ Cardinality(UsedSlots) = hist.creates - hist.deletes
    /\ Cardinality(UsedSlots) <= states.objectTableSize

\* C11: the number of slots in use is the number of creations that found a
\* slot minus the number of DELETEOBJECT records that named a slot in use,
\* and is at most the size of the table, which is the nObjects of the header.
C11_SlotCountEmptied ==
    /\ Cardinality(UsedSlots) = hist.creates - hist.emptied
    /\ Cardinality(UsedSlots) <= states.objectTableSize
    /\ DOMAIN states.objectTable = 0 .. states.objectTableSize - 1
    /\ states.objectTableSize = Cardinality(DOMAIN heap.slot)

\* two objects were created, one was deleted, and the same slot was deleted
\* once more
C11_Witness ==
    /\ hist.creates = 2 /\ hist.deletes = 2 /\ hist.emptied = 1
    /\ Cardinality(UsedSlots) = 1

\* C12, as the specification states it: the depth of the stack is the number
\* of SAVEDC records minus the number of RESTOREDC records, or 0 if that is
\* negative.
C12_DepthIsSavesMinusRestores ==
    Len(states.DeviceContextStack) = Max(0, hist.saves - hist.restores)

\* C12: the depth of the stack is what the records give when a SAVEDC adds
\* one frame and a RESTOREDC of n takes Abs(n) frames away, or all of them
\* when there are fewer.
C12_DepthFollowsPops == Len(states.DeviceContextStack) = hist.depth

\* three SAVEDC and a RESTOREDC of -2 left one frame
C12_Witness ==
    /\ last.iType = U_WMR_RESTOREDC /\ hist.payload = -2
    /\ hist.saves = 3 /\ hist.restores = 1
    /\ Len(states.DeviceContextStack) = 1

\* C13: a RESTOREDC of 1 that pops the frame of a SAVEDC leaves the current
\* device context, every field of it, as it was at that SAVEDC, and the
\* stack as it was before that SAVEDC.
C13_RestoreRoundTrip ==
    [][(/\ calls' = calls + 1
        /\ last'.iType = U_WMR_RESTOREDC
        /\ hist'.payload = 1
        /\ hist.saved # <<>>) =>
            /\ states'.currentDeviceContext = Head(hist.saved).dc
            /\ states'.DeviceContextStack = Head(hist.saved).stack]_vars

\* a RESTOREDC of 1 took a font selected after the SAVEDC out of the device
\* context again
C13_Witness ==
    /\ last.iType = U_WMR_RESTOREDC /\ hist.payload = 1
    /\ hist.dc.font_name # NullStr
    /\ states.currentDeviceContext = wmf_initDeviceContext
    /\ states.DeviceContextStack = <<>>

\* C14: after a SELECTOBJECT that names the stock object NULL_BRUSH the fill
\* is disabled, and after one that names WHITE_BRUSH the fill is solid white
\* and nothing else of the device context has changed, whatever the object
\* table holds.
C14_StockSelected ==
    last.iType = U_WMR_SELECTOBJECT =>
        /\ hist.payload = WMF_STOCK(5) =>
                /\ ~states.currentDeviceContext.fill_set
                /\ states.currentDeviceContext.fill_style = WMF_BS_NULL
        /\ hist.payload = WMF_STOCK(0) =>
                states.currentDeviceContext =
                    [hist.dc EXCEPT !.fill_set = TRUE,
                                    !.fill_style = WMF_BS_SOLID,
                                    !.fill_red = 255, !.fill_green = 255,
                                    !.fill_blue = 255]

\* the font_name pointers that are not NULL, one for each holder
HeldNames ==
    LET n == Cardinality(DOMAIN heap.slot)
        all == [k \in 1 .. n |-> heap.slot[k - 1]] \o heap.stack \o <<heap.dc>>
    IN  SelectSeq(all, LAMBDA q : q # 0)

\* C15: no block is freed or read when it is not in use; every block in use
\* is the font_name of exactly one slot, saved device context or current
\* device context; and none is in use when wmf2svg has returned.
C15_NoLeakNoDoubleFree ==
    /\ ~heap.bad
    /\ heap.live = {HeldNames[k] : k \in 1 .. Len(HeldNames)}
    /\ Cardinality(heap.live) = Len(HeldNames)
    /\ pc = "done" => heap.live = {}

\* the cleanup freed the face names of a slot, of the current device context
\* and of a saved one
C15_Witness ==
    /\ pc = "done" /\ heap.live = {} /\ ~heap.bad
    /\ states.currentDeviceContext.font_name # NullStr
    /\ states.DeviceContextStack # <<>>
    /\ Head(states.DeviceContextStack).font_name # NullStr
    /\ \E i \in UsedSlots : states.objectTable[i].font_name # NullStr

DrawTypes ==
    {U_WMR_LINETO, U_WMR_RECTANGLE, U_WMR_ROUNDRECT, U_WMR_ELLIPSE,
     U_WMR_POLYGON, U_WMR_POLYLINE, U_WMR_POLYPOLYGON, U_WMR_ARC,
     U_WMR_CHORD, U_WMR_PIE, U_WMR_TEXTOUT, U_WMR_EXTTEXTOUT}

\* where the fill attribute of an element comes from
FillOf(e) ==
    CASE e.tag = "line" -> "absent"
      [] e.tag = "text" -> "text colour"
      [] e.tag = "polyline" \/ (e.tag = "path" /\ e.kind = U_WMR_ARC) ->
            "literal"
      [] OTHER -> "brush"

\* whether two elements carry the same stroke attributes and, when their
\* fill comes from the same place, the same fill attributes
SameStyle(e, f) ==
    /\ ("stroke" \in DOMAIN e /\ "stroke" \in DOMAIN f) => e.stroke = f.stroke
    /\ (FillOf(e) = FillOf(f) /\ "fill" \in DOMAIN e) => e.fill = f.fill

\* C17: a drawing record leaves the current device context, the stack of
\* device contexts, the object table and the window and viewport fields
\* unchanged; and when the record before it was a drawing record too, every
\* element it writes carries the stroke and fill attributes of the elements
\* that record wrote.
C17_DrawKeepsStyle ==
    [][(calls' = calls + 1 /\ last'.iType \in DrawTypes) =>
        /\ states'.currentDeviceContext = states.currentDeviceContext
        /\ states'.DeviceContextStack = states.DeviceContextStack
        /\ states'.objectTable = states.objectTable
        /\ states'.objectTableSize = states.objectTableSize
        /\ \A fld \in {"windowOrgX", "windowOrgY", "windowExtX",
                        "windowExtY", "viewportOrgX", "viewportOrgY",
                        "viewportExtX", "viewportExtY"} :
              states'[fld] = states[fld]
        /\ last.iType \in DrawTypes =>
              \A i \in Len(stream) + 1 .. Len(stream') :
                  \A j \in hist.mark + 1 .. Len(stream) :
                      SameStyle(stream'[i], stream[j])]_vars

\* a PIE drawn after a RECTANGLE, with a dashed pen and a solid brush: both
\* elements are stroked and filled
C17_Witness ==
    /\ calls = 2
    /\ last.iType = U_WMR_PIE
    /\ Len(stream) = 2
    /\ stream[1].tag = "rect" /\ stream[2].tag = "path"
    /\ stream[2].fill.fill = "rgb"
    /\ stream[2].stroke.stroke = "rgb"
    /\ Len(stream[2].stroke.dasharray) = 2

\* the Length bytes of a TEXTOUT or EXTTEXTOUT record
Payload(p) == SubSeq(p.string, 1, p.Length)

\* the bytes of a payload before its first NUL
RECURSIVE UpToNul(_)
UpToNul(s) ==
    IF s = <<>> \/ Head(s) = NUL THEN <<>> ELSE <<Head(s)>> \o UpToNul(Tail(s))

\* the characters written for a text content, in one string
RECURSIVE Written(_)
Written(s) == IF s = <<>> THEN "" ELSE Head(s) \o Written(Tail(s))

\* the entity of a reserved character, and any other character itself
Entity(ch) ==
    IF ch \in {"<", ">", "&", "\""}
    THEN [lt |-> "&lt;", gt |-> "&gt;", amp |-> "&amp;", quot |-> "&quot;"]
             [CASE ch = "<" -> "lt" [] ch = ">" -> "gt"
                [] ch = "&" -> "amp" [] ch = "\"" -> "quot"]
    ELSE ch

\* the content of the text element is, byte by byte, the entity of each
\* reserved character and every other character itself, for the bytes of
\* the payload of the last record before its first NUL
EscapedByteByByte ==
    calls > 0 =>
        LET bytes == UpToNul(Payload(hist.payload))
            content == stream[Len(stream)].content
        IN  /\ Len(content) = Len(bytes)
            /\ \A i \in 1 .. Len(bytes) : content[i] = Entity(bytes[i])

\* C18 as stated: the content written is the escaping of the Length bytes
\* up to the first NUL, and two records with different payloads never have
\* the same escaped text.
C18_EscapeInjective ==
    /\ EscapedByteByByte
    /\ calls = 2 =>
          (Payload(hist.prev) # Payload(hist.payload) =>
              Written(stream[1].content) # Written(stream[2].content))

\* C18, amended: the content written is the escaping of the Length bytes up
\* to the first NUL, and two records whose payloads differ before their
\* first NUL never have the same escaped text.
C18_EscapeInjectiveUpToNul ==
    /\ EscapedByteByByte
    /\ calls = 2 =>
          (UpToNul(Payload(hist.prev)) # UpToNul(Payload(hist.payload)) =>
              Written(stream[1].content) # Written(stream[2].content))

\* the payload '<' after the payload "&lt;": the texts written differ
C18_Witness ==
    /\ calls = 2
    /\ hist.prev.string = <<"&", "l", "t", ";">>
    /\ hist.payload.string = <<"<">> /\ hist.payload.Length = 1
    /\ Written(stream[1].content) = "&amp;lt;"
    /\ Written(stream[2].content) = "&lt;"

\* c[1] + ... + c[i]
RECURSIVE SumTo(_, _)
SumTo(c, i) == IF i = 0 THEN 0 ELSE c[i] + SumTo(c, i - 1)

\* For the POLYPOLYGON record interpreted last, whose words are m: the
\* elements it wrote are one polygon for each count above 0, in order, and
\* the polygon of count i holds the points numbered SumTo(c, i - 1) to
\* SumTo(c, i) - 1 of the array after the counts.
PolygonsPartitionPoints ==
    LET m == hist.payload.m
        nPolys == m[3]
        c == [i \in 1 .. nPolys |-> m[3 + i]]
        positive == {i \in 1 .. nPolys : c[i] > 0}
        written == SubSeq(stream, hist.mark + 1, Len(stream))
        point(q) == <<wmf_scaleX(states, ToInt16(m[4 + nPolys + 2 * q])),
                      wmf_scaleY(states, ToInt16(m[4 + nPolys + 2 * q + 1]))>>
    IN  /\ Len(written) = Cardinality(positive)
        /\ \A i \in positive :
              LET e == written[Cardinality({l \in positive : l <= i})]
              IN  /\ e.tag = "polygon"
                  /\ e.points = [j \in 1 .. c[i] |->
                                    point(SumTo(c, i - 1) + j - 1)]

\* C20: a POLYPOLYGON record that decodes writes one polygon for each
\* count above 0, in order, made of the points its count numbers in the
\* flat array; and no byte is read after the points the counts number,
\* nor outside the record.
C20_PolyPolygon ==
    (calls > 0 /\ hist.payload.m[0] >= 5) =>
        LET m == hist.payload.m
            nPolys == m[3]
            c == [i \in 1 .. nPolys |-> m[3 + i]]
        IN  /\ PolygonsPartitionPoints
            /\ hist.readHi <= 8 + 2 * nPolys + 4 * SumTo(c, nPolys)
            /\ hist.readHi <= 2 * m[0]

\* C19: each call of wmf_onerec_draw is for the record at the cursor, which
\* is the offset of the record before plus twice the size in words that
\* record declares; and the loop ends only at an EOF record, at a record
\* whose size is 0 or that does not end in the buffer, at the end of the
\* buffer (a record there would not lie in the buffer), or when recNum
\* exceeds MaxRecords.  A step that ends the process in a read past the
\* buffer is not an end of the loop.
C19_InOrderUntilEnd ==
    [][/\ (calls' = calls + 1 /\ pc' # "fault") =>
            /\ last'.off = recPtr
            /\ last.off >= 0 =>
                  /\ last.size[2] < 16384
                  /\ last'.off = last.off
                        + 2 * (last.size[2] * 65536 + last.size[1])
       /\ (pc = "loop" /\ pc' = "tail") =>
            \/ recPtr >= args.length
            \/ /\ calls' = calls + 1
               /\ \/ last'.iType = U_WMR_EOF
                  \/ last'.size = <<0, 0>>
                  \/ last'.size[2] >= 16384
                  \/ last'.off + 2 * (last'.size[2] * 65536 + last'.size[1])
                        > args.length
            \/ recNum' > MaxRecords]_vars

\* C21: a RESTOREDC of n = 0 changes nothing.  A RESTOREDC of n # 0 on a
\* stack of d frames pops k = min(|n|, d) frames; the current device
\* context is then the k-th frame from the top, as SAVEDC stored it (for
\* k = 0 it is unchanged); nothing else changes; and -n has the same effect.
C21_RestorePops ==
    [][(calls' = calls + 1 /\ last'.iType = U_WMR_RESTOREDC) =>
        LET n == hist'.payload
            stack == states.DeviceContextStack
            d == Len(stack)
            k == IF Abs(n) < d THEN Abs(n) ELSE d
        IN  /\ n = 0 => states' = states
            /\ states'.DeviceContextStack = SubSeq(stack, k + 1, d)
            /\ states'.currentDeviceContext =
                  IF k = 0 THEN states.currentDeviceContext
                  ELSE hist.saved[k].dc
            /\ k > 0 => hist.saved[k].dc = stack[k]
            /\ states' = [states EXCEPT
                             !.currentDeviceContext =
                                 states'.currentDeviceContext,
                             !.DeviceContextStack =
                                 states'.DeviceContextStack]
            /\ states' = wmf_restoreDeviceContext(states, -n)]_vars

\* RESTOREDC(-2) on a stack of one frame, saved before SETTEXTCOLOR: the
\* frame is popped and the text colour is the saved one again
C21_Witness ==
    /\ last.iType = U_WMR_RESTOREDC
    /\ hist.payload = -2
    /\ hist.depth = 0 /\ hist.saves = 1
    /\ hist.dc.text_green = 255
    /\ states.currentDeviceContext.text_green = 0
    /\ states.DeviceContextStack = <<>>

\* the fields of a device context that a slot of type t overwrites
FieldsOf(t) ==
    CASE t = WMF_OBJ_PEN ->
            {"stroke_set", "stroke_style", "stroke_red", "stroke_green",
             "stroke_blue", "stroke_width"}
      [] t = WMF_OBJ_BRUSH ->
            {"fill_set", "fill_style", "fill_hatch", "fill_red",
             "fill_green", "fill_blue"}
      [] t = WMF_OBJ_FONT ->
            {"font_set", "font_name", "font_height", "font_width",
             "font_escapement", "font_orientation", "font_weight",
             "font_italic", "font_underline", "font_strikeout",
             "font_charset"}
      [] OTHER -> {}

\* C22: a SELECTOBJECT of an index inside the table gives the fields of the
\* kind of the slot (stroke for a pen, fill and hatch for a brush, font for
\* a font, none for an empty slot) the values of the slot, and changes no
\* other field of the current device context: not the text colour and
\* alignment, the background, the polygon fill mode or ROP2; the stack, the
\* object table and the other states are unchanged.
C22_SelectOverwritesKind ==
    [][(/\ calls' = calls + 1
        /\ last'.iType = U_WMR_SELECTOBJECT
        /\ hist'.payload.hi = 0
        /\ hist'.payload.lo < states.objectTableSize) =>
        LET obj == states.objectTable[hist'.payload.lo]
            dc == states.currentDeviceContext
        IN  /\ \A f \in FieldsOf(obj.type) :
                  states'.currentDeviceContext[f] = obj[f]
            /\ \A f \in DOMAIN dc \ FieldsOf(obj.type) :
                  states'.currentDeviceContext[f] = dc[f]
            /\ states' = [states EXCEPT !.currentDeviceContext =
                                            states'.currentDeviceContext]]_vars

\* a font was created in slot 0 and selected: the device context has its
\* face name, and the pen and the brush it had
C22_Witness ==
    /\ last.iType = U_WMR_SELECTOBJECT
    /\ hist.payload = U32(0, 0)
    /\ states.objectTableSize > 0
    /\ states.objectTable[0].type = WMF_OBJ_FONT
    /\ states.currentDeviceContext.font_name = StrPtr(<<"A">>)
    /\ hist.dc.font_name = NullStr
    /\ states.currentDeviceContext.fill_red = 255

\* C23: a SELECTOBJECT or a DELETEOBJECT of an index at or past
\* objectTableSize (any index when the table has no slot) changes nothing:
\* not the current device context, the object table or the stack, nor any
\* other state; it writes nothing and frees nothing.  The handlers read
\* objectTable[index] for the indexes below objectTableSize only.
C23_PastTableIgnored ==
    [][(/\ calls' = calls + 1
        /\ \/ /\ last'.iType = U_WMR_SELECTOBJECT
              /\ hist'.payload.lo >= states.objectTableSize
           \/ /\ last'.iType = U_WMR_DELETEOBJECT
              /\ hist'.payload >= states.objectTableSize) =>
        /\ states' = states
        /\ stream' = stream
        /\ heap' = heap
        /\ DOMAIN states.objectTable = 0 .. states.objectTableSize - 1]_vars

\* DELETEOBJECT 2 on a table of two slots that holds a pen: the pen stays
C23_Witness ==
    /\ last.iType = U_WMR_DELETEOBJECT
    /\ hist.payload = 2
    /\ states.objectTableSize = 2
    /\ states.objectTable[0].type = WMF_OBJ_PEN
    /\ hist.deletes = 1 /\ hist.emptied = 0

\* whether the last record was skipped: its type has no case in
\* wmf_onerec_draw or is in the ignored set (of the types the buffers hold,
\* every type but those listed), or the getter of its case refused it, its
\* size being less than the fixed part of the type
Skipped ==
    \/ last.iType \notin {U_WMR_EOF, U_WMR_SETBKCOLOR, U_WMR_SETMAPMODE,
                          U_WMR_LINETO, U_WMR_SAVEDC}
    \/ /\ last.iType # U_WMR_EOF
       /\ RECSAFE_get([i \in 0 .. 1 |-> last.size[i + 1]], 0,
                      FixedPart(last.iType)) = 0

\* C24: a record that is skipped (no case for its type, a type of the
\* ignored set, or a payload its getter refuses) changes none of the
\* drawing states (device context, stack, object table, transform, cursor)
\* and writes nothing.
C24_SkippedNoEffect ==
    (last.off >= 0 /\ pc # "fault" /\ Skipped) =>
        ~last.changed /\ ~last.emitted

\* a FLOODFILL record after a SETBKCOLOR and a SAVEDC record: the frame is
\* still on the stack
C24_Witness ==
    /\ calls = 3
    /\ last.iType = 25
    /\ pc = "loop"
    /\ Len(states.DeviceContextStack) = 1
    /\ ~last.changed

\* a LINETO record of 3 words, which U_WMRLINETO_get refuses
C24_WitnessRefused ==
    /\ last.iType = U_WMR_LINETO
    /\ last.size = <<3, 0>>
    /\ pc = "loop"
    /\ ~last.changed /\ ~last.emitted

\* the buffer m with the high function byte of the record at r set to xb
WithXb(m, r, xb) == [m EXCEPT ![r \div 2 + 2] = U8At(m, r + 4) + 256 * xb]

C26_FirstRecord ==
    [][/\ (pc = "call" /\ pc' = "loop") =>
            recPtr' = IF mem[0] = KeyLo /\ mem[1] = KeyHi
                      THEN 22 + 2 * mem[12] ELSE 2 * mem[1]
       /\ (calls = 0 /\ calls' = 1) => last'.off = recPtr
       /\ (pc = "loop" /\ calls = 0 /\ recPtr >= args.length) =>
            /\ pc' = "tail"
            /\ calls' = 0
            /\ readHi <= args.length
            /\ readHi' = readHi]_vars

\* a placeable buffer of 40 bytes whose header declares 256 words: the loop
\* started at 22 + 512 and ended without a call
C26_Witness ==
    /\ pc = "tail"
    /\ args.length = 40
    /\ recPtr = 534
    /\ calls = 0
    /\ readHi = 26

\* the device context the claim C27 describes
DefaultDeviceContext ==
    [font_set |-> FALSE, font_name |-> NullStr, font_height |-> 0,
     font_width |-> 0, font_escapement |-> 0, font_orientation |-> 0,
     font_weight |-> 0, font_italic |-> 0, font_underline |-> 0,
     font_strikeout |-> 0, font_charset |-> 0,
     stroke_set |-> TRUE, stroke_style |-> WMF_PS_SOLID, stroke_red |-> 0,
     stroke_green |-> 0, stroke_blue |-> 0, stroke_width |-> 1,
     fill_set |-> TRUE, fill_style |-> WMF_BS_SOLID, fill_hatch |-> 0,
     fill_red |-> 255, fill_green |-> 255, fill_blue |-> 255,
     fill_polymode |-> WMF_ALTERNATE,
     text_red |-> 0, text_green |-> 0, text_blue |-> 0,
     text_align |-> BitOr(WMF_TA_LEFT, WMF_TA_TOP),
     bk_red |-> 255, bk_green |-> 255, bk_blue |-> 255,
     bk_mode |-> WMF_OPAQUE,
     rop2_mode |-> 13]

\* C27: when the record loop starts, before any call of wmf_onerec_draw, the
\* current device context holds the defaults, the stack is empty, every
\* slot of the object table is Invalid and the cursor is (0, 0); and no
\* step of the loop gives the defaults back to a device context that a
\* record has changed.
C27_DefaultsOnce ==
    [][/\ (pc = "loop" /\ calls = 0) =>
            /\ states.currentDeviceContext = DefaultDeviceContext
            /\ states.DeviceContextStack = <<>>
            /\ DOMAIN states.objectTable = 0 .. states.objectTableSize - 1
            /\ \A i \in DOMAIN states.objectTable :
                  states.objectTable[i].type = WMF_OBJ_INVALID
            /\ states.cur_x = D(0) /\ states.cur_y = D(0)
       /\ (pc = "loop" /\ states.currentDeviceContext # DefaultDeviceContext) =>
            states'.currentDeviceContext # DefaultDeviceContext]_vars

\* after a SETBKCOLOR and a SAVEDC record the background is the one the
\* first record set
C27_Witness ==
    /\ pc = "loop"
    /\ calls = 2
    /\ last.iType = U_WMR_SAVEDC
    /\ states.currentDeviceContext.bk_red = 1
    /\ states.currentDeviceContext.bk_blue = 3
    /\ states.currentDeviceContext.fill_red = 255

\* C28: when the buffer has a placeable header, the record loop starts with
\* windowOrg = (Dst.left, Dst.top), viewportOrg = windowOrg, viewportExt =
\* windowExt and mapMode = ANISOTROPIC.
C28_ViewportIsWindow ==
    (pc = "loop" /\ calls = 0 /\ states.hasPlaceable) =>
        /\ states.windowOrgX = states.placeableBounds.left
        /\ states.windowOrgY = states.placeableBounds.top
        /\ states.viewportOrgX = states.windowOrgX
        /\ states.viewportOrgY = states.windowOrgY
        /\ states.viewportExtX = states.windowExtX
        /\ states.viewportExtY = states.windowExtY
        /\ states.mapMode = WMF_MM_ANISOTROPIC

\* C29: when the buffer has a placeable header, the record loop starts with
\* windowExtX = Dst.right - Dst.left and windowExtY = Dst.bottom - Dst.top,
\* the differences of the integers, and with no requested image size the
\* image size is these differences times the scaling.
C29_ExtentIsDifference ==
    (pc = "loop" /\ calls = 0 /\ states.hasPlaceable) =>
        LET Dst == states.placeableBounds IN
        /\ states.windowExtX = Dst.right - Dst.left
        /\ states.windowExtY = Dst.bottom - Dst.top
        /\ (args.opt.imgWidth = 0 /\ args.opt.imgHeight = 0) =>
              /\ states.imgWidth = RMul(D(Dst.right - Dst.left), states.scaling)
              /\ states.imgHeight = RMul(D(Dst.bottom - Dst.top), states.scaling)

\* the two fields of the drawing states the record of type t sets
PairOf(t) ==
    CASE t = U_WMR_SETWINDOWORG -> <<"windowOrgX", "windowOrgY">>
      [] t = U_WMR_SETWINDOWEXT -> <<"windowExtX", "windowExtY">>
      [] t = U_WMR_SETVIEWPORTORG -> <<"viewportOrgX", "viewportOrgY">>
      [] t = U_WMR_SETVIEWPORTEXT -> <<"viewportExtX", "viewportExtY">>

\* C30: a SETWINDOWORG, SETWINDOWEXT, SETVIEWPORTORG or SETVIEWPORTEXT
\* record sets its own two fields to the point of the record and changes no
\* other field of the drawing states (the other transform fields, scaling,
\* the cursor, the device context, its stack, the object table) and writes
\* nothing; a SETMAPMODE record changes mapMode only, and wmf_scaleX and
\* wmf_scaleY give the same value after it as before for every coordinate.
C30_TransformRecords ==
    [][calls' = calls + 1 =>
        LET t == last'.iType
            p == hist'.payload
        IN  /\ t \in {U_WMR_SETWINDOWORG, U_WMR_SETWINDOWEXT,
                      U_WMR_SETVIEWPORTORG, U_WMR_SETVIEWPORTEXT} =>
                /\ states'[PairOf(t)[1]] = p.pt.x
                /\ states'[PairOf(t)[2]] = p.pt.y
                /\ \A f \in DOMAIN states \ {PairOf(t)[1], PairOf(t)[2]} :
                        states'[f] = states[f]
                /\ stream' = stream
            /\ t = U_WMR_SETMAPMODE =>
                /\ states'.mapMode = p.mode
                /\ \A f \in DOMAIN states \ {"mapMode"} :
                        states'[f] = states[f]
                /\ stream' = stream
                /\ \A x \in Coords :
                        /\ wmf_scaleX(states', x) = wmf_scaleX(states, x)
                        /\ wmf_scaleY(states', x) = wmf_scaleY(states, x)]_vars

\* a SETWINDOWEXT record has changed the extent of the window, and only it,
\* after a SAVEDC record, with a pen in the object table and the cursor
\* moved by a LINETO record
C30_Witness ==
    /\ last.iType = U_WMR_SETWINDOWEXT
    /\ states.windowExtX = 3
    /\ states.windowExtY = -5
    /\ states.viewportExtX # 3
    /\ states.windowOrgX = -32768
    /\ Len(states.DeviceContextStack) = 1
    /\ states.cur_x # D(0)
    /\ InvalidSlots(states) # 0 .. states.objectTableSize - 1

\* a SETMAPMODE record has changed the map mode after a SETWINDOWEXT record
C30_WitnessMapMode ==
    /\ last.iType = U_WMR_SETMAPMODE
    /\ states.mapMode = WMF_MM_TEXT
    /\ hist.payload.mode = WMF_MM_TEXT
    /\ states.windowExtX = 3

\* the integer nearest to r >= 0, the even one of two that are as near
Nearest(r) ==
    CHOOSE k \in 0 .. (r.n \div r.d) + 1 :
        \/ 2 * Abs(r.n - k * r.d) < r.d
        \/ 2 * Abs(r.n - k * r.d) = r.d /\ k % 2 = 0

\* the stroke attributes the claim C31 gives for a pen object o at the
\* scaling sc: with dash numbers 3w and w when exact, printed with "%.0f"
\* otherwise
StrokeOf(o, sc, exact) ==
    LET w == IF RLess(RMul(D(o.stroke_width), sc), D(1)) THEN D(1)
             ELSE RMul(D(o.stroke_width), sc)
        w3 == RMul(w, D(3))
        a == IF exact THEN w3 ELSE Nearest(w3)
        b == IF exact THEN w ELSE Nearest(w)
        k == o.stroke_style % 16
    IN  IF ~o.stroke_set \/ o.stroke_style = WMF_PS_NULL
        THEN [stroke |-> "none"]
        ELSE [stroke |-> "rgb",
              color |-> <<o.stroke_red, o.stroke_green, o.stroke_blue>>,
              width |-> w,
              dasharray |->
                  CASE k = WMF_PS_DASH -> <<a, b>>
                    [] k = WMF_PS_DOT -> <<b, b>>
                    [] k = WMF_PS_DASHDOT -> <<a, b, b, b>>
                    [] k = WMF_PS_DASHDOTDOT -> <<a, b, b, b, b, b>>
                    [] OTHER -> <<>>]

\* a LINETO or RECTANGLE record follows the SELECTOBJECT of a slot that
\* holds a pen
DrawnWithPen ==
    /\ last.iType \in {U_WMR_LINETO, U_WMR_RECTANGLE}
    /\ calls >= 2
    /\ hist.prev \in {U32(0, i) : i \in 0 .. states.objectTableSize - 1}
    /\ states.objectTable[hist.prev.lo].type = WMF_OBJ_PEN

\* the integer n as a double, for the numbers of a dasharray
AsDoubles(dash) == [i \in DOMAIN dash |-> D(dash[i])]

\* C31 as stated: the element drawn after CREATEPENINDIRECT and SELECTOBJECT
\* of the slot has stroke "none" iff the style is NULL, and otherwise the
\* colour of the pen, the width max(1, width * scaling) and the dash array
\* 3w,w / w,w / 3w,w,w,w / 3w,w,w,w,w,w / none of the low nibble of the style.
C31_StrokeOfPen ==
    DrawnWithPen =>
        LET e == stream[Len(stream)].stroke
            o == StrokeOf(states.objectTable[hist.prev.lo], states.scaling,
                          TRUE)
        IN  /\ e.stroke = o.stroke
            /\ e.stroke = "rgb" =>
                    /\ e.color = o.color
                    /\ e.width = o.width
                    /\ AsDoubles(e.dasharray) = o.dasharray

\* C31, what holds of it: CREATEPENINDIRECT stores the style, the colour and the
\* width of the pen (1 for a width that is not positive) in the slot, and
\* the element drawn after SELECTOBJECT of the slot has stroke "none" iff
\* the style is NULL, and otherwise the colour of the pen, the width w =
\* max(1, width * scaling) and the dash array of the low nibble of the
\* style, whose numbers are 3w and w rounded to the nearest integer.
C31_StrokeOfPenRounded ==
    /\ DrawnWithPen =>
            stream[Len(stream)].stroke =
                StrokeOf(states.objectTable[hist.prev.lo], states.scaling,
                         FALSE)
    /\ (last.iType = U_WMR_CREATEPENINDIRECT /\ last.idx >= 0) =>
            LET o == states.objectTable[last.idx]
                pen == hist.payload.pen
            IN  /\ o.type = WMF_OBJ_PEN
                /\ o.stroke_set = (pen.Style # WMF_PS_NULL)
                /\ o.stroke_style = pen.Style
                /\ o.stroke_width = IF pen.Width > 0 THEN pen.Width ELSE 1
                /\ <<o.stroke_red, o.stroke_green, o.stroke_blue>> =
                        <<pen.Color.Red, pen.Color.Green, pen.Color.Blue>>

\* the line of the example: a DASH pen of width 2 and colour FF000A at
\* scaling 1 gives the width 2 and the dash array 6,2
C31_Witness ==
    /\ DrawnWithPen
    /\ last.iType = U_WMR_LINETO
    /\ states.scaling = D(1)
    /\ stream[Len(stream)].stroke =
            [stroke |-> "rgb", color |-> <<255, 0, 10>>, width |-> D(2),
             dasharray |-> <<6, 2>>]

\* C32: the element a drawing record writes has fill "none" iff the fill of
\* the device context is disabled or its brush style is NULL/HOLLOW, and
\* otherwise the colour of the brush and the fill rule "nonzero" when the
\* poly fill mode is WINDING, "evenodd" for every other mode; the element of
\* a POLYLINE or an ARC has fill "none" whatever the brush.
C32_FillOfBrush ==
    (last.iType \in DrawTypes /\ last.emitted) =>
        LET e == stream[Len(stream)]
            dc == states.currentDeviceContext
            off == ~dc.fill_set \/ dc.fill_style \in {WMF_BS_NULL, WMF_BS_HOLLOW}
        IN  IF last.iType \in {U_WMR_POLYLINE, U_WMR_ARC}
            THEN e.fill = [fill |-> "none"]
            ELSE /\ (e.fill.fill = "none") <=> off
                 /\ ~off =>
                        /\ e.fill.fill = "rgb"
                        /\ e.fill.color = <<dc.fill_red, dc.fill_green,
                                            dc.fill_blue>>
                        /\ e.fill.rule = IF dc.fill_polymode = WMF_WINDING
                                         THEN "nonzero" ELSE "evenodd"

\* a polygon drawn with the hatched brush selected and the poly fill mode 0
\* is filled with the colour of the brush and the rule "evenodd"
C32_Witness ==
    /\ last.iType = U_WMR_POLYGON
    /\ states.currentDeviceContext.fill_polymode = 0
    /\ states.currentDeviceContext.fill_style = 2
    /\ stream[Len(stream)].fill =
            [fill |-> "rgb", color |-> <<0, 171, 255>>, rule |-> "evenodd"]

\* an arc drawn with the solid brush selected has fill "none"
C32_WitnessArc ==
    /\ last.iType = U_WMR_ARC
    /\ states.currentDeviceContext.fill_set
    /\ states.currentDeviceContext.fill_blue = 255
    /\ states.currentDeviceContext.fill_green = 171
    /\ stream[Len(stream)].fill = [fill |-> "none"]

\* C33: a MOVETO record sets the cursor to its scaled point and writes
\* nothing; a LINETO record writes one line from the cursor before the
\* record to its scaled point and sets the cursor to that point, so a
\* LINETO that follows a LINETO starts where the line before ended; no
\* other record changes the cursor.
C33_CursorChain ==
    [][calls' = calls + 1 =>
        LET t == last'.iType
            pt == hist'.payload.pt
            x2 == wmf_scaleX(states, pt.x)
            y2 == wmf_scaleY(states, pt.y)
            e == stream'[Len(stream')]
        IN  /\ t = U_WMR_MOVETO =>
                /\ states' = [states EXCEPT !.cur_x = x2, !.cur_y = y2]
                /\ stream' = stream
            /\ t = U_WMR_LINETO =>
                /\ states' = [states EXCEPT !.cur_x = x2, !.cur_y = y2]
                /\ Len(stream') = Len(stream) + 1
                /\ SubSeq(stream', 1, Len(stream)) = stream
                /\ e.tag = "line"
                /\ <<e.x1, e.y1>> = <<states.cur_x, states.cur_y>>
                /\ <<e.x2, e.y2>> = <<x2, y2>>
                /\ last.iType = U_WMR_LINETO =>
                        <<e.x1, e.y1>> = <<stream[Len(stream)].x2,
                                           stream[Len(stream)].y2>>
            /\ t \notin {U_WMR_MOVETO, U_WMR_LINETO} =>
                /\ states'.cur_x = states.cur_x
                /\ states'.cur_y = states.cur_y]_vars

\* two lines after a MOVETO, with the extent of the window changed between
\* them: the second starts at the end of the first
C33_Witness ==
    /\ calls = 4
    /\ last.iType = U_WMR_LINETO
    /\ Len(stream) = 2
    /\ states.windowExtX = 500
    /\ stream[1].tag = "line" /\ stream[2].tag = "line"
    /\ stream[1].x1 = D(3) /\ stream[1].x2 = D(-5)
    /\ stream[2].x1 = D(-5) /\ stream[2].x2 = D(6)
    /\ states.cur_x = D(6)

\* C34: the element a TEXTOUT or EXTTEXTOUT record writes has the text
\* anchor "end" when the horizontal alignment of the device context is
\* RIGHT (2 of the bits 6), "middle" when it is CENTER (6) and "start"
\* otherwise.
C34_TextAnchor ==
    (last.iType \in {U_WMR_TEXTOUT, U_WMR_EXTTEXTOUT} /\ last.emitted) =>
        LET h == BitAnd(states.currentDeviceContext.text_align, WMF_TA_CENTER)
        IN  stream[Len(stream)].text_anchor =
                CASE h = WMF_TA_RIGHT -> "end"
                  [] h = WMF_TA_CENTER -> "middle"
                  [] OTHER -> "start"

\* C35 as stated: the element a record writes is the element computed from
\* the drawing states as the record leaves them (every change the record
\* makes comes before what it writes).
C35_MutationBeforeEmission ==
    [][(calls' = calls + 1 /\ last'.emitted) =>
        stream' = OneRec([states |-> states', stream |-> stream],
                         hist'.payload).stream]_vars

\* C35, amended: a record that writes an element changes no field of the
\* drawing states, except LINETO, which changes the cursor only, after it
\* has written its line: the line starts at the cursor the earlier records
\* left and the cursor becomes its end.  So every element is computed from
\* the drawing states as the records before left them.
C35_EmissionFromStateBefore ==
    [][(calls' = calls + 1 /\ last'.emitted) =>
        LET e == stream'[Len(stream')]
        IN  IF last'.iType = U_WMR_LINETO
            THEN /\ states' = [states EXCEPT !.cur_x = e.x2, !.cur_y = e.y2]
                 /\ <<e.x1, e.y1>> = <<states.cur_x, states.cur_y>>
                 /\ e.stroke = wmf_stroke_style(states)
            ELSE states' = states]_vars

\* a line written from the cursor a MOVETO left to another point, where the
\* cursor is after the record, and a rectangle written after it
C35_Witness ==
    /\ calls = 3
    /\ last.iType = U_WMR_RECTANGLE
    /\ Len(stream) = 2
    /\ stream[1].tag = "line"
    /\ <<stream[1].x1, stream[1].y1>> = <<D(-5), D(7)>>
    /\ <<stream[1].x2, stream[1].y2>> = <<D(3), D(4)>>
    /\ <<states.cur_x, states.cur_y>> = <<D(3), D(4)>>

\* C38: a SAVEDC or RESTOREDC record changes the current device context and
\* its stack only: the origin and the extent of the window and of the
\* viewport, mapMode, scaling, the cursor, the object table and every other
\* field of the drawing states are as before, and nothing is written.
C38_SaveRestoreFrame ==
    [][(calls' = calls + 1 /\ last'.iType \in {U_WMR_SAVEDC, U_WMR_RESTOREDC})
        => /\ \A f \in DOMAIN states \
                      {"currentDeviceContext", "DeviceContextStack"} :
                  states'[f] = states[f]
           /\ stream' = stream]_vars

\* SAVEDC, then SETWINDOWEXT and MOVETO, then a RESTOREDC that pops the
\* frame: the extent and the cursor stay as the two records set them
C38_Witness ==
    /\ calls = 4
    /\ last.iType = U_WMR_RESTOREDC
    /\ hist.saves = 1 /\ hist.restores = 1 /\ hist.depth = 0
    /\ hist.payload # 0
    /\ hist.prev = [iType |-> U_WMR_MOVETO, pt |-> [x |-> 3, y |-> 4]]
    /\ states.windowExtX = 500 /\ states.windowExtY = -250
    /\ <<states.cur_x, states.cur_y>> = <<D(6), D(-16)>>
    /\ states.DeviceContextStack = <<>>

\* C36: the face names the current device context, the saved device
\* contexts and the slots of the object table hold are blocks in use, no two
\* of them the same block; and a record leaves every saved device context
\* on the stack as it is, fields and face name: SAVEDC puts a copy of the
\* current device context on top of them, RESTOREDC takes some off the top,
\* and any other record leaves the stack as it is.
C36_SnapshotsDeep ==
    [][calls' = calls + 1 =>
        LET s == states.DeviceContextStack
            t == states'.DeviceContextStack
            k == Len(s) - Len(t)
        IN  /\ CASE last'.iType = U_WMR_SAVEDC ->
                        /\ t = <<states.currentDeviceContext>> \o s
                        /\ Tail(heap'.stack) = heap.stack
                  [] last'.iType = U_WMR_RESTOREDC ->
                        /\ k >= 0
                        /\ t = SubSeq(s, k + 1, Len(s))
                        /\ heap'.stack = SubSeq(heap.stack, k + 1, Len(s))
                  [] OTHER -> t = s /\ heap'.stack = heap.stack
            /\ Len(heap'.stack) = Len(t)
            /\ \A i \in 1 .. Len(t) :
                    (t[i].font_name = NullStr) <=> (heap'.stack[i] = 0)
            /\ \A i \in 1 .. Len(HeldNames') : HeldNames'[i] \in heap'.live
            /\ \A i, j \in 1 .. Len(HeldNames') :
                    i # j => HeldNames'[i] # HeldNames'[j]]_vars

\* a font is created, selected and saved, and its slot is deleted: the
\* saved device context and the current one hold the name still, each in a
\* block of its own
C36_Witness ==
    /\ calls = 4
    /\ last.iType = U_WMR_DELETEOBJECT
    /\ UsedSlots = {}
    /\ Len(states.DeviceContextStack) = 1
    /\ states.DeviceContextStack[1].font_name = StrPtr(<<"A">>)
    /\ states.currentDeviceContext.font_name = StrPtr(<<"A">>)
    /\ heap.stack[1] # 0 /\ heap.dc # 0 /\ heap.stack[1] # heap.dc
    /\ heap.live = {heap.stack[1], heap.dc}

\* C37: a DELETEOBJECT record of the index i makes the slot i Invalid and
\* changes nothing else: the current device context, its face name on the
\* heap, the saved device contexts and what was written are as before, also
\* when the slot holds the pen, brush or font selected last; it changes
\* nothing at all when the slot is Invalid already or i is past the table.
\* A text written after the record has the font of the device context as it
\* was before the record.
C37_DeleteKeepsSelection ==
    [][calls' = calls + 1 =>
        LET i == hist'.payload
        IN  /\ last'.iType = U_WMR_DELETEOBJECT =>
                /\ states' = IF i < states.objectTableSize
                             THEN [states EXCEPT !.objectTable[i] = ZeroObject]
                             ELSE states
                /\ i < states.objectTableSize =>
                        states'.objectTable[i].type = WMF_OBJ_INVALID
                /\ (i \notin UsedSlots) => (states' = states /\ heap' = heap)
                /\ stream' = stream
                /\ heap'.dc = heap.dc /\ heap'.stack = heap.stack
                /\ heap.dc # 0 => heap'.dc \in heap'.live
                /\ ~heap'.bad
            /\ (last'.iType = U_WMR_TEXTOUT /\ last'.emitted
                    /\ last.iType = U_WMR_DELETEOBJECT) =>
                    /\ stream'[Len(stream')].font_family = hist.dc.font_name
                    /\ ~heap'.bad]_vars

\* a font is created and selected, its slot is deleted, and the text
\* written next has the face name of the font
C37_Witness ==
    /\ calls = 4
    /\ last.iType = U_WMR_TEXTOUT /\ last.emitted
    /\ UsedSlots = {}
    /\ hist.creates = 1 /\ hist.emptied = 1
    /\ stream[Len(stream)].font_family = StrPtr(<<"A">>)

\* C39 as stated: a SELECTOBJECT whose index is 32768 or more takes the
\* stock-object branch, which does not look the index up in the object
\* table: the device context is what the branch makes of it, unchanged for
\* a value that is no stock object.
C39_HighIndexIsStock ==
    (last.iType = U_WMR_SELECTOBJECT /\ hist.payload.lo >= 32768) =>
        states.currentDeviceContext = SelectStock(hist.dc, hist.payload)

\* C39, amended: a SELECTOBJECT whose index is 32768 or more is looked up in
\* the object table as any other index: the object of the slot is selected
\* when the table has the slot, and nothing changes when it has not.
C39_HighIndexIsTableIndex ==
    (last.iType = U_WMR_SELECTOBJECT /\ hist.payload.lo >= 32768) =>
        LET i == hist.payload.lo
        IN  /\ i < states.objectTableSize =>
                    states.currentDeviceContext =
                        SelectSlot(hist.dc, states.objectTable[i])
            /\ i >= states.objectTableSize =>
                    states.currentDeviceContext = hist.dc

\* the brush of the slot 32768 has been selected, and the rectangle drawn
\* next is filled with its colour
C39_Witness ==
    /\ calls = 2
    /\ last.iType = U_WMR_RECTANGLE
    /\ hist.prev = [iType |-> U_WMR_SELECTOBJECT, hi |-> 0, lo |-> 32768]
    /\ stream[1].fill.color = <<0, 171, 255>>

\* the bits of the bytes bs, the high bit of each byte first
RECURSIVE BitsOf(_)
BitsOf(bs) ==
    IF bs = <<>> THEN <<>>
    ELSE [i \in 1 .. 8 |-> (Head(bs) \div (2 ^ (8 - i))) % 2] \o BitsOf(Tail(bs))

\* the alphabet of RFC 4648, table 1: the value v is the letter v of A-Z for
\* v < 26, of a-z for v < 52, the digit v - 52 for v < 62, then + and /
RFC4648Alphabet(v) ==
    LET upper == <<"A", "B", "C", "D", "E", "F", "G", "H", "I", "J", "K",
                   "L", "M", "N", "O", "P", "Q", "R", "S", "T", "U", "V",
                   "W", "X", "Y", "Z">>
        lower == <<"a", "b", "c", "d", "e", "f", "g", "h", "i", "j", "k",
                   "l", "m", "n", "o", "p", "q", "r", "s", "t", "u", "v",
                   "w", "x", "y", "z">>
        digit == <<"0", "1", "2", "3", "4", "5", "6", "7", "8", "9">>
    IN  CASE v < 26 -> upper[v + 1]
          [] v < 52 -> lower[v - 25]
          [] v < 62 -> digit[v - 51]
          [] v = 62 -> "+"
          [] v = 63 -> "/"

\* the encoding of RFC 4648, section 4: the bits of the input, with zero
\* bits added up to a multiple of 6, six at a time, then "=" up to a
\* multiple of 4 characters
RFC4648(bs) ==
    LET bits == BitsOf(bs)
        n6 == (Len(bits) + 5) \div 6
        bit(i) == IF i <= Len(bits) THEN bits[i] ELSE 0
        val(c) == 32 * bit(6 * c - 5) + 16 * bit(6 * c - 4) + 8 * bit(6 * c - 3)
                    + 4 * bit(6 * c - 2) + 2 * bit(6 * c - 1) + bit(6 * c)
    IN  [c \in 1 .. 4 * ((n6 + 3) \div 4) |->
            IF c <= n6 THEN RFC4648Alphabet(val(c)) ELSE "="]

\* the bytes wmf_base64_encode is called on
DataBytes == [i \in 1 .. args.length |-> U8At(mem, i - 1)]

\* C40: for an input of n bytes wmf_base64_encode gives the length
\* 4 * ((n + 2) / 3) and that many characters, which are the encoding of
\* the input of RFC 4648 and end in 0, 2 or 1 "=" for n mod 3 = 0, 1, 2,
\* and a NUL after them; for n = 0 it gives the empty string.
C40_Base64 ==
    pc = "done" =>
        LET n == args.length
            len == result.out_length
            text == SubSeq(result.out, 1, len)
            pads == Cardinality({k \in 1 .. len : text[k] = "="})
        IN  /\ len = 4 * ((n + 2) \div 3)
            /\ Len(result.out) = len + 1
            /\ result.out[len + 1] = NUL
            /\ text = RFC4648(DataBytes)
            /\ pads = <<0, 2, 1>>[(n % 3) + 1]
            /\ \A k \in 1 .. len : text[k] = "=" <=> k > len - pads
            /\ n = 0 => result.out = <<NUL>>

\* the encoding of the four bytes "Man" and 00 is "TWFuAA==" and a NUL
C40_Witness ==
    /\ pc = "done"
    /\ DataBytes = <<77, 97, 110, 0>>
    /\ result.out_length = 8
    /\ result.out = <<"T", "W", "F", "u", "A", "A", "=", "=", NUL>>

====
